---- MODULE Spec2Model ----
(***************************************************************************)
(* Storage adapters (SQLite, PostgreSQL, MongoDB) and the firehose         *)
(* ingestion handler of the feed generator.                                *)
(*                                                                         *)
(* One instance of each adapter is modelled, each owning its own backend,  *)
(* as returned by createDatabaseAdapter (connected and migrated, backend   *)
(* empty).  Writes and findByUri are applied with the same arguments to    *)
(* all three instances; findMany is called on one instance at a time.      *)
(*                                                                         *)
(* Spec       the posts operations, paging clients and single-operation    *)
(*            commits.                                                     *)
(* SpecPipeline  handleEvent alone, fed batches of deletes and creates,    *)
(*            with and without a dbAdapter, and disconnect.                *)
(* SpecSub    the subscriptionState operations and disconnect.             *)
(* SpecIngest the run loop of the subscription: handleEvent, then the      *)
(*            cursor of the batch.                                         *)
(* SpecFeed   the whats-alf feed handler on the legacy database.           *)
(* SpecLifecycle  connect, migrate, healthCheck and disconnect from        *)
(*            construction on, with backends that stop answering.          *)
(* SpecLoop   the run loop statement by statement: the handleEvent calls   *)
(*            in flight and the writes they issue.                         *)
(* SpecAlgorithmFeed  posts.getAlgorithmFeed on changing stores.           *)
(* SpecFactory  createDatabaseAdapter on every configuration, with         *)
(*            backends that fail before or in the middle of migrate().     *)
(* SpecMigration  connect and repeated migrate() with a fault at any       *)
(*            statement.                                                   *)
(* SpecContract  the posts and subscriptionState operations on connected   *)
(*            adapters, next to each other.                                *)
(* SpecPaging a client following the cursors of the whats-alf handler.     *)
(* SpecConcurrent  two adapter instances running migrate() on one backend. *)
(* SpecServer FeedGenerator: start, termination signals, shutdown, and the *)
(*            subscription and feed endpoint in between.                   *)
(***************************************************************************)
EXTENDS Integers, Sequences, FiniteSets, TLC

\* ------------------------------------------------------------------ bounds
MaxTick == 2          \* timestamps range over 9 .. 9 + MaxTick
MaxLimit == 1         \* largest limit passed to findMany
MaxCursor == 3        \* subscription cursors range over 1 .. MaxCursor
MaxDeletes == 1       \* delete operations per firehose commit
MaxCreates == 1       \* create operations per firehose commit
MaxUpdates == 2       \* subscriptionState.update calls (batches) followed per service
MaxFeedLimit == 2     \* largest params.limit passed to the feed handler
MaxSignals == 2       \* termination signals delivered to the process

\* --------------------------------------------------------------- universes
Backends == {"sqlite", "postgresql", "mongodb"}
Uris == {"u1", "u2", "u3"}
\* Timestamps; 9 -> 10 crosses a digit boundary of the text form.
Times == 9 .. (9 + MaxTick)
Services == {"s1", "s2"}
Cursors == 1 .. MaxCursor

Undefined == "undefined"     \* the JavaScript value undefined
Null == "null"               \* SQL NULL / JavaScript null
EmptyString == ""
NoLimit == 0 - 1              \* criteria.limit absent
NoCursor == <<>>             \* criteria.cursor absent

\* A JavaScript value is falsy in `x || y` and `if (x)` when it is
\* undefined, null or the empty string.
Falsy(x) == x \in {Undefined, Null, EmptyString}

\* ------------------------------------------------------------ conversions
\* A timestamp text without zero padding.
ToISOStringUnpadded(t) ==
  IF t < 10 THEN <<t>> ELSE <<t \div 10, t % 10>>

\* Date.prototype.toISOString: fixed-width zero-padded decimal text, most
\* significant digit first (the shape of YYYY-MM-DDTHH:mm:ss.sssZ).
ToISOString(t) ==
  <<t \div 10, t % 10>>

\* new Date(text): the instant a timestamp text denotes.
RECURSIVE DateParse(_)
DateParse(s) ==
  IF Len(s) = 0 THEN 0
  ELSE DateParse(SubSeq(s, 1, Len(s) - 1)) * 10 + s[Len(s)]

\* Text comparison `a < b` of the SQL engines (binary collation).
RECURSIVE StrLess(_, _)
StrLess(a, b) ==
  IF Len(b) = 0 THEN FALSE
  ELSE IF Len(a) = 0 THEN TRUE
  ELSE IF a[1] # b[1] THEN a[1] < b[1]
  ELSE StrLess(Tail(a), Tail(b))

\* JSON.stringify of a post record.
\* Texts are sequences of characters.
JSONStringify(record) == <<"{">> \o record.text \o <<"}">>

\* JSON.parse: an object with its text, the value null, or a SyntaxError.
JSONParse(json) ==
  IF json = <<"n", "u", "l", "l">> THEN [err |-> "none", val |-> [kind |-> "null"]]
  ELSE IF Len(json) >= 2 /\ json[1] = "{" /\ json[Len(json)] = "}"
  THEN [err |-> "none",
        val |-> [kind |-> "object", text |-> SubSeq(json, 2, Len(json) - 1)]]
  ELSE [err |-> "SyntaxError", val |-> [kind |-> "none"]]

\* String.prototype.toLowerCase on the letters the texts use.
ToLowerCase(s) ==
  [i \in 1 .. Len(s) |->
     CASE s[i] = "A" -> "a"
       [] s[i] = "L" -> "l"
       [] s[i] = "F" -> "f"
       [] OTHER -> s[i]]

\* String.prototype.includes
Includes(s, sub) ==
  \E i \in 1 .. (Len(s) - Len(sub) + 1) : SubSeq(s, i, i + Len(sub) - 1) = sub

\* Number.prototype.toString(10) and parseInt(s, 10) on decimal digits.
NumberToString(n) == IF n < 10 THEN <<n>> ELSE <<n \div 10, n % 10>>
ParseInt(s) == DateParse(s)

\* ------------------------------------------------------------------ inputs
\* Two shapes of firehose record: a top-level post and a reply.
Variants == {1, 2}
Record(v) ==
  IF v = 1 THEN [text |-> <<"A", "L", "F">>, parent |-> Undefined, root |-> Undefined]
  ELSE [text |-> <<"c", "a", "t">>, parent |-> "u1", root |-> "u1"]
Cid(v) == IF v = 1 THEN "c1" ELSE "c2"
Author(v) == IF v = 1 THEN "did1" ELSE "did2"

\* Omit<PostRecord, 'id'> values handed to posts.create.
MkPost(u, t, v) ==
  [uri |-> u, cid |-> Cid(v),
   replyParent |-> Record(v).parent, replyRoot |-> Record(v).root,
   authorDid |-> Author(v), recordJson |-> JSONStringify(Record(v)),
   indexedAt |-> t]
\* The record shapes tried per uri.
VariantsOf(u) == IF u = "u2" THEN {2} ELSE {1}
PostInputs ==
  UNION {{MkPost(u, t, v) : t \in Times, v \in VariantsOf(u)} : u \in Uris}

UUIDs == {"uuid-1"}

\* A PostRecord: the stored fields plus an id.
WithId(id, p) ==
  [id |-> id, uri |-> p.uri, cid |-> p.cid,
   replyParent |-> p.replyParent, replyRoot |-> p.replyRoot,
   authorDid |-> p.authorDid, recordJson |-> p.recordJson,
   indexedAt |-> p.indexedAt]

\* Outcomes of an adapter call: a thrown error or a returned value.  The
\* value is wrapped in a sequence; <<>> stands for null / void.
Ok(v) == [err |-> "none", val |-> v]
Throw(e) == [err |-> e, val |-> <<>>]
Outcome(thrown) == IF thrown = "none" THEN Ok(<<>>) ELSE Throw(thrown)
NotConnected == "Database not connected"
DuplicateKey == "unique constraint violated"

\* ---------------------------------------------------------------- helpers
RECURSIVE Perms(_)
Perms(S) ==
  IF S = {} THEN {<<>>}
  ELSE UNION {{<<x>> \o p : p \in Perms(S \ {x})} : x \in S}

Take(s, n) == IF Len(s) <= n THEN s ELSE SubSeq(s, 1, n)
Min(x, y) == IF x <= y THEN x ELSE y
Range(s) == {s[i] : i \in 1 .. Len(s)}

\* ===================================================== SQLiteAdapter
\* Table post without its primary key.
SQLitePostInsertNoKey(rows, row) ==
  [rows |-> rows \cup {row}, err |-> "none"]

\* Table post of migrations 001 + 002: uri is the primary key.
SQLitePostInsert(rows, row) ==
  IF \E r \in rows : r.uri = row.uri
  THEN [rows |-> rows, err |-> DuplicateKey]
  ELSE [rows |-> rows \cup {row}, err |-> "none"]

\* A row whose indexedAt is stored at a coarser precision.
SQLiteRowTruncated(post) ==
  [uri |-> post.uri, cid |-> post.cid,
   replyParent |-> IF Falsy(post.replyParent) THEN Null ELSE post.replyParent,
   replyRoot |-> IF Falsy(post.replyRoot) THEN Null ELSE post.replyRoot,
   authorDid |-> post.authorDid, recordJson |-> post.recordJson,
   indexedAt |-> ToISOString((post.indexedAt \div 2) * 2)]

\* The row written by posts.create.
SQLiteRow(post) ==
  [uri |-> post.uri, cid |-> post.cid,
   replyParent |-> IF Falsy(post.replyParent) THEN Null ELSE post.replyParent,
   replyRoot |-> IF Falsy(post.replyRoot) THEN Null ELSE post.replyRoot,
   authorDid |-> post.authorDid, recordJson |-> post.recordJson,
   indexedAt |-> ToISOString(post.indexedAt)]

\* The PostRecord built from a row by findMany and findByUri.
SQLiteRecord(row) ==
  [id |-> row.uri, uri |-> row.uri, cid |-> row.cid,
   replyParent |-> IF Falsy(row.replyParent) THEN Undefined ELSE row.replyParent,
   replyRoot |-> IF Falsy(row.replyRoot) THEN Undefined ELSE row.replyRoot,
   authorDid |-> row.authorDid, recordJson |-> row.recordJson,
   indexedAt |-> DateParse(row.indexedAt)]

\* posts.create written as INSERT OR REPLACE.
SQLiteAdapter_createOrReplace(db, rows, post, id) ==
  IF ~db THEN [rows |-> rows, out |-> Throw(NotConnected)]
  ELSE [rows |-> {r \in rows : r.uri # post.uri} \cup {SQLiteRow(post)},
        out |-> Ok(<<WithId(id, post)>>)]

SQLiteAdapter_create(db, rows, post, id) ==
  IF ~db THEN [rows |-> rows, out |-> Throw(NotConnected)]
  ELSE LET ins == SQLitePostInsert(rows, SQLiteRow(post))
       IN IF ins.err # "none"
          THEN [rows |-> rows, out |-> Throw(ins.err)]
          ELSE [rows |-> ins.rows, out |-> Ok(<<WithId(id, post)>>)]

\* ORDER BY indexedAt DESC names no second key: rows with equal indexedAt
\* come back in an order the engine chooses.  The operator yields every
\* page the query may return.
\* findMany that cuts the page to the limit before it filters by author.
SQLiteAdapter_findManyLimitFirst(db, rows, criteria) ==
  IF ~db THEN {Throw(NotConnected)}
  ELSE
    LET match == IF criteria.cursor = NoCursor THEN rows
                 ELSE {r \in rows : StrLess(r.indexedAt, criteria.cursor)}
        ordered == {s \in Perms(match) :
                      \A i \in 1 .. Len(s) - 1 :
                        ~StrLess(s[i].indexedAt, s[i + 1].indexedAt)}
        limited(s) == IF criteria.limit = NoLimit \/ criteria.limit = 0 THEN s
                      ELSE Take(s, criteria.limit)
        byAuthor(s) == IF Falsy(criteria.authorDid) THEN s
                       ELSE SelectSeq(s, LAMBDA r : r.authorDid = criteria.authorDid)
    IN {Ok([i \in 1 .. Len(byAuthor(limited(s))) |->
              SQLiteRecord(byAuthor(limited(s))[i])]) : s \in ordered}

SQLiteAdapter_findMany(db, rows, criteria) ==
  IF ~db THEN {Throw(NotConnected)}
  ELSE
    LET byAuthor == IF Falsy(criteria.authorDid) THEN rows
                    ELSE {r \in rows : r.authorDid = criteria.authorDid}
        match == IF criteria.cursor = NoCursor THEN byAuthor
                 ELSE {r \in byAuthor : StrLess(r.indexedAt, criteria.cursor)}
        ordered == {s \in Perms(match) :
                      \A i \in 1 .. Len(s) - 1 :
                        ~StrLess(s[i].indexedAt, s[i + 1].indexedAt)}
        limited(s) == IF criteria.limit = NoLimit \/ criteria.limit = 0 THEN s
                      ELSE Take(s, criteria.limit)
    IN {Ok([i \in 1 .. Len(limited(s)) |-> SQLiteRecord(limited(s)[i])]) : s \in ordered}

SQLiteAdapter_findByUri(db, rows, uri) ==
  IF ~db THEN Throw(NotConnected)
  ELSE LET found == {r \in rows : r.uri = uri}
       IN IF found = {} THEN Ok(<<>>)
          ELSE Ok(<<SQLiteRecord(CHOOSE r \in found : TRUE)>>)

\* deleteByUri that reports a deletion it did not make.
SQLiteAdapter_deleteByUriKeep(db, rows, uri) ==
  IF ~db THEN [rows |-> rows, out |-> Throw(NotConnected)]
  ELSE [rows |-> rows, out |-> Ok(<<(\E r \in rows : r.uri = uri)>>)]

SQLiteAdapter_deleteByUri(db, rows, uri) ==
  IF ~db THEN [rows |-> rows, out |-> Throw(NotConnected)]
  ELSE LET gone == {r \in rows : r.uri = uri}
       IN [rows |-> rows \ gone, out |-> Ok(<<gone # {}>>)]

\* ===================================================== PostgreSQLAdapter
\* Table post of migrations 001 + 002 (CREATE TABLE post ... uri PRIMARY KEY).
PostgreSQLPostInsert(rows, row) ==
  IF \E r \in rows : r.uri = row.uri
  THEN [rows |-> rows, err |-> DuplicateKey]
  ELSE [rows |-> rows \cup {row}, err |-> "none"]

\* The row written by posts.create.
PostgreSQLRow(post) ==
  [uri |-> post.uri, cid |-> post.cid,
   replyParent |-> IF Falsy(post.replyParent) THEN Null ELSE post.replyParent,
   replyRoot |-> IF Falsy(post.replyRoot) THEN Null ELSE post.replyRoot,
   authorDid |-> post.authorDid, recordJson |-> post.recordJson,
   indexedAt |-> ToISOString(post.indexedAt)]

\* The PostRecord built from a row by findMany and findByUri.
PostgreSQLRecord(row) ==
  [id |-> row.uri, uri |-> row.uri, cid |-> row.cid,
   replyParent |-> IF Falsy(row.replyParent) THEN Undefined ELSE row.replyParent,
   replyRoot |-> IF Falsy(row.replyRoot) THEN Undefined ELSE row.replyRoot,
   authorDid |-> row.authorDid, recordJson |-> row.recordJson,
   indexedAt |-> DateParse(row.indexedAt)]

PostgreSQLAdapter_create(pool, rows, post, id) ==
  IF ~pool THEN [rows |-> rows, out |-> Throw(NotConnected)]
  ELSE LET ins == PostgreSQLPostInsert(rows, PostgreSQLRow(post))
       IN IF ins.err # "none"
          THEN [rows |-> rows, out |-> Throw(ins.err)]
          ELSE [rows |-> ins.rows, out |-> Ok(<<WithId(id, post)>>)]

\* ORDER BY indexedAt DESC names no second key: rows with equal indexedAt
\* come back in an order the engine chooses.  The operator yields every
\* page the query may return.
PostgreSQLAdapter_findMany(pool, rows, criteria) ==
  IF ~pool THEN {Throw(NotConnected)}
  ELSE
    LET byAuthor == IF Falsy(criteria.authorDid) THEN rows
                    ELSE {r \in rows : r.authorDid = criteria.authorDid}
        match == IF criteria.cursor = NoCursor THEN byAuthor
                 ELSE {r \in byAuthor : StrLess(r.indexedAt, criteria.cursor)}
        ordered == {s \in Perms(match) :
                      \A i \in 1 .. Len(s) - 1 :
                        ~StrLess(s[i].indexedAt, s[i + 1].indexedAt)}
        limited(s) == IF criteria.limit = NoLimit \/ criteria.limit = 0 THEN s
                      ELSE Take(s, criteria.limit)
    IN {Ok([i \in 1 .. Len(limited(s)) |-> PostgreSQLRecord(limited(s)[i])]) : s \in ordered}

\* findByUri without `if (!this.pool) throw`.
PostgreSQLAdapter_findByUriUnguarded(pool, rows, uri) ==
  LET found == {r \in rows : r.uri = uri}
  IN IF found = {} THEN Ok(<<>>)
     ELSE Ok(<<PostgreSQLRecord(CHOOSE r \in found : TRUE)>>)

PostgreSQLAdapter_findByUri(pool, rows, uri) ==
  IF ~pool THEN Throw(NotConnected)
  ELSE LET found == {r \in rows : r.uri = uri}
       IN IF found = {} THEN Ok(<<>>)
          ELSE Ok(<<PostgreSQLRecord(CHOOSE r \in found : TRUE)>>)

\* deleteByUri answering from the query having run, not from rowCount.
PostgreSQLAdapter_deleteByUriAlwaysTrue(pool, rows, uri) ==
  IF ~pool THEN [rows |-> rows, out |-> Throw(NotConnected)]
  ELSE [rows |-> {r \in rows : r.uri # uri}, out |-> Ok(<<TRUE>>)]

PostgreSQLAdapter_deleteByUri(pool, rows, uri) ==
  IF ~pool THEN [rows |-> rows, out |-> Throw(NotConnected)]
  ELSE LET gone == {r \in rows : r.uri = uri}
       IN [rows |-> rows \ gone, out |-> Ok(<<gone # {}>>)]

\* ===================================================== MongoDBAdapter
\* Collection posts with the unique index { uri: 1 } created by migrate().
MongoDBPostsInsertOne(docs, doc) ==
  IF \E d \in docs : d.uri = doc.uri
  THEN [rows |-> docs, err |-> DuplicateKey]
  ELSE [rows |-> docs \cup {doc}, err |-> "none"]

\* The PostDocument written by posts.create: fields are stored as passed,
\* indexedAt as a Date.
MongoDBDocument(post) ==
  [uri |-> post.uri, cid |-> post.cid,
   replyParent |-> post.replyParent, replyRoot |-> post.replyRoot,
   authorDid |-> post.authorDid, recordJson |-> post.recordJson,
   indexedAt |-> post.indexedAt]

\* The PostRecord built from a document by findMany and findByUri.
MongoDBRecord(doc) ==
  [id |-> doc.uri, uri |-> doc.uri, cid |-> doc.cid,
   replyParent |-> doc.replyParent, replyRoot |-> doc.replyRoot,
   authorDid |-> doc.authorDid, recordJson |-> doc.recordJson,
   indexedAt |-> doc.indexedAt]

MongoDBAdapter_create(db, docs, post, id) ==
  IF ~db THEN [rows |-> docs, out |-> Throw(NotConnected)]
  ELSE LET ins == MongoDBPostsInsertOne(docs, MongoDBDocument(post))
       IN IF ins.err # "none"
          THEN [rows |-> docs, out |-> Throw(ins.err)]
          ELSE [rows |-> ins.rows, out |-> Ok(<<WithId(id, post)>>)]

\* sort({ indexedAt: -1 }) names no second key: documents with equal
\* indexedAt come back in an order the engine chooses.
MongoDBAdapter_findMany(db, docs, criteria) ==
  IF ~db THEN {Throw(NotConnected)}
  ELSE
    LET byAuthor == IF Falsy(criteria.authorDid) THEN docs
                    ELSE {d \in docs : d.authorDid = criteria.authorDid}
        match == IF criteria.cursor = NoCursor THEN byAuthor
                 ELSE {d \in byAuthor : d.indexedAt < DateParse(criteria.cursor)}
        ordered == {s \in Perms(match) :
                      \A i \in 1 .. Len(s) - 1 :
                        s[i].indexedAt >= s[i + 1].indexedAt}
        limited(s) == IF criteria.limit = NoLimit \/ criteria.limit = 0 THEN s
                      ELSE Take(s, criteria.limit)
    IN {Ok([i \in 1 .. Len(limited(s)) |-> MongoDBRecord(limited(s)[i])]) : s \in ordered}

MongoDBAdapter_findByUri(db, docs, uri) ==
  IF ~db THEN Throw(NotConnected)
  ELSE LET found == {d \in docs : d.uri = uri}
       IN IF found = {} THEN Ok(<<>>)
          ELSE Ok(<<MongoDBRecord(CHOOSE d \in found : TRUE)>>)

\* deleteOne removes at most one matching document.
MongoDBAdapter_deleteByUri(db, docs, uri) ==
  IF ~db THEN [rows |-> docs, out |-> Throw(NotConnected)]
  ELSE LET found == {d \in docs : d.uri = uri}
       IN IF found = {} THEN [rows |-> docs, out |-> Ok(<<FALSE>>)]
          ELSE [rows |-> docs \ {CHOOSE d \in found : TRUE}, out |-> Ok(<<TRUE>>)]

\* ===================================================== dispatch by backend
posts_create(a, conn, rows, post, id) ==
  CASE a = "sqlite" -> SQLiteAdapter_create(conn, rows, post, id)
    [] a = "postgresql" -> PostgreSQLAdapter_create(conn, rows, post, id)
    [] a = "mongodb" -> MongoDBAdapter_create(conn, rows, post, id)

posts_findMany(a, conn, rows, criteria) ==
  CASE a = "sqlite" -> SQLiteAdapter_findMany(conn, rows, criteria)
    [] a = "postgresql" -> PostgreSQLAdapter_findMany(conn, rows, criteria)
    [] a = "mongodb" -> MongoDBAdapter_findMany(conn, rows, criteria)

posts_findByUri(a, conn, rows, uri) ==
  CASE a = "sqlite" -> SQLiteAdapter_findByUri(conn, rows, uri)
    [] a = "postgresql" -> PostgreSQLAdapter_findByUri(conn, rows, uri)
    [] a = "mongodb" -> MongoDBAdapter_findByUri(conn, rows, uri)

posts_deleteByUri(a, conn, rows, uri) ==
  CASE a = "sqlite" -> SQLiteAdapter_deleteByUri(conn, rows, uri)
    [] a = "postgresql" -> PostgreSQLAdapter_deleteByUri(conn, rows, uri)
    [] a = "mongodb" -> MongoDBAdapter_deleteByUri(conn, rows, uri)

\* The feed result whose cursor is the caller's cursor when the page is
\* empty.
FeedResultEchoCursor(posts, cursor) ==
  [posts |-> posts,
   cursor |-> IF Len(posts) > 0 THEN ToISOString(posts[Len(posts)].indexedAt)
              ELSE cursor]

\* newCursor = posts.length > 0 ? posts[posts.length - 1].indexedAt
\* .toISOString() : undefined; return { posts, cursor: newCursor }
FeedResult(posts, cursor) ==
  [posts |-> posts,
   cursor |-> IF Len(posts) > 0 THEN ToISOString(posts[Len(posts)].indexedAt)
              ELSE NoCursor]

\* posts.getAlgorithmFeed(algorithm, limit, cursor), the same in the three
\* adapters: this.posts.findMany({ limit, cursor }), then the feed result.
posts_getAlgorithmFeed(a, conn, rows, algorithm, limit, cursor) ==
  LET criteria == [authorDid |-> Undefined, cursor |-> cursor, limit |-> limit]
  IN {IF o.err # "none" THEN o ELSE Ok(FeedResult(o.val, cursor)) :
        o \in posts_findMany(a, conn, rows, criteria)}

\* ===================================================== subscriptionState
\* Table sub_state: service is the primary key.
\* INSERT ... ON CONFLICT (service) DO NOTHING.
SQLiteSubStateInsertDoNothing(rows, row) ==
  IF \E r \in rows : r.service = row.service THEN rows ELSE rows \cup {row}

\* INSERT ... ON CONFLICT (service) DO UPDATE SET cursor.
SQLiteSubStateUpsert(rows, row) ==
  IF \E r \in rows : r.service = row.service
  THEN {IF r.service = row.service THEN [r EXCEPT !.cursor = row.cursor] ELSE r :
          r \in rows}
  ELSE rows \cup {row}

SQLiteAdapter_subscriptionState_get(db, rows, service) ==
  IF ~db THEN Throw(NotConnected)
  ELSE LET found == {r \in rows : r.service = service}
       IN IF found = {} THEN Ok(<<>>)
          ELSE LET row == CHOOSE r \in found : TRUE
               IN Ok(<<[service |-> row.service, cursor |-> row.cursor]>>)

SQLiteAdapter_subscriptionState_update(db, rows, service, cursor) ==
  IF ~db THEN [rows |-> rows, out |-> Throw(NotConnected)]
  ELSE [rows |-> SQLiteSubStateUpsert(rows, [service |-> service, cursor |-> cursor]),
        out |-> Ok(<<>>)]

\* The update written as DELETE FROM sub_state followed by an INSERT.
PostgreSQLSubStateReplaceAll(rows, row) == {row}

PostgreSQLSubStateUpsert(rows, row) ==
  IF \E r \in rows : r.service = row.service
  THEN {IF r.service = row.service THEN [r EXCEPT !.cursor = row.cursor] ELSE r :
          r \in rows}
  ELSE rows \cup {row}

PostgreSQLAdapter_subscriptionState_get(pool, rows, service) ==
  IF ~pool THEN Throw(NotConnected)
  ELSE LET found == {r \in rows : r.service = service}
       IN IF found = {} THEN Ok(<<>>)
          ELSE LET row == CHOOSE r \in found : TRUE
               IN Ok(<<[service |-> row.service, cursor |-> row.cursor]>>)

PostgreSQLAdapter_subscriptionState_update(pool, rows, service, cursor) ==
  IF ~pool THEN [rows |-> rows, out |-> Throw(NotConnected)]
  ELSE [rows |-> PostgreSQLSubStateUpsert(rows, [service |-> service, cursor |-> cursor]),
        out |-> Ok(<<>>)]

\* replaceOne with an empty filter: the first document of the collection,
\* whatever its service, is replaced.
MongoDBReplaceOneAny(docs, doc) ==
  IF docs = {} THEN {doc}
  ELSE (docs \ {CHOOSE d \in docs : TRUE}) \cup {doc}

\* replaceOne({ service }, { service, cursor }, { upsert: true }): the first
\* matching document is replaced, or the document inserted when none matches.
MongoDBReplaceOneUpsert(docs, doc) ==
  LET found == {d \in docs : d.service = doc.service}
  IN IF found = {} THEN docs \cup {doc}
     ELSE (docs \ {CHOOSE d \in found : TRUE}) \cup {doc}

MongoDBAdapter_subscriptionState_get(db, docs, service) ==
  IF ~db THEN Throw(NotConnected)
  ELSE LET found == {d \in docs : d.service = service}
       IN IF found = {} THEN Ok(<<>>)
          ELSE LET document == CHOOSE d \in found : TRUE
               IN Ok(<<[service |-> document.service, cursor |-> document.cursor]>>)

MongoDBAdapter_subscriptionState_update(db, docs, service, cursor) ==
  IF ~db THEN [rows |-> docs, out |-> Throw(NotConnected)]
  ELSE [rows |-> MongoDBReplaceOneUpsert(docs, [service |-> service, cursor |-> cursor]),
        out |-> Ok(<<>>)]

subscriptionState_get(a, conn, rows, service) ==
  CASE a = "sqlite" -> SQLiteAdapter_subscriptionState_get(conn, rows, service)
    [] a = "postgresql" -> PostgreSQLAdapter_subscriptionState_get(conn, rows, service)
    [] a = "mongodb" -> MongoDBAdapter_subscriptionState_get(conn, rows, service)

subscriptionState_update(a, conn, rows, service, cursor) ==
  CASE a = "sqlite" -> SQLiteAdapter_subscriptionState_update(conn, rows, service, cursor)
    [] a = "postgresql" ->
         PostgreSQLAdapter_subscriptionState_update(conn, rows, service, cursor)
    [] a = "mongodb" -> MongoDBAdapter_subscriptionState_update(conn, rows, service, cursor)

\* ===================================================== FirehoseSubscription
\* The uris the firehose commits speak of.
EventUris == {"u1", "u2"}

\* Create operations of a commit, as getOpsByType hands them over.
CreateOps ==
  UNION {{[uri |-> u, cid |-> Cid(v), author |-> Author(v), record |-> Record(v)] :
            v \in VariantsOf(u)} : u \in EventUris}

SeqsUpTo(S, n) == UNION {[1 .. k -> S] : k \in 0 .. n}

Events ==
  {[isCommit |-> FALSE, deletes |-> <<>>, creates |-> <<>>]} \cup
  {[isCommit |-> TRUE, deletes |-> d, creates |-> c] :
     d \in SeqsUpTo(EventUris, MaxDeletes), c \in SeqsUpTo(CreateOps, MaxCreates)}

\* Events that are no commit and commits of a single operation.
SingleOpEvents == {e \in Events : Len(e.deletes) + Len(e.creates) <= 1}

\* postsToCreate: every create mapped to a row-to-be, stamped new Date().
PostsToCreate(evt, clock) ==
  [i \in 1 .. Len(evt.creates) |->
     LET create == evt.creates[i]
     IN [uri |-> create.uri, cid |-> create.cid,
         replyParent |-> IF Falsy(create.record.parent) THEN Undefined
                         ELSE create.record.parent,
         replyRoot |-> IF Falsy(create.record.root) THEN Undefined
                       ELSE create.record.root,
         authorDid |-> create.author,
         recordJson |-> JSONStringify(create.record),
         indexedAt |-> clock]]

\* acc carries through the two loops the rows so far, the error, if any,
\* that has left the handler, the number of adapter calls made and the
\* number of console.error lines written.
NoCalls(rows) == [rows |-> rows, thrown |-> "none", attempted |-> 0, failed |-> 0]

Logged(r) == IF r.out.err # "none" THEN 1 ELSE 0

\* The delete loop without its try/catch: the first error leaves the loop.
RECURSIVE DeleteLoopNoCatch(_, _, _, _)
DeleteLoopNoCatch(a, conn, acc, uris) ==
  IF Len(uris) = 0 \/ acc.thrown # "none" THEN acc
  ELSE LET r == posts_deleteByUri(a, conn, acc.rows, Head(uris))
       IN DeleteLoopNoCatch(a, conn,
                            [rows |-> r.rows, thrown |-> r.out.err,
                             attempted |-> acc.attempted + 1, failed |-> acc.failed],
                            Tail(uris))

\* for (const uri of postsToDelete) { try { deleteByUri } catch { log } }
\* An error of one call is logged and the loop goes on.
RECURSIVE DeleteLoop(_, _, _, _)
DeleteLoop(a, conn, acc, uris) ==
  IF Len(uris) = 0 THEN acc
  ELSE LET r == posts_deleteByUri(a, conn, acc.rows, Head(uris))
       IN DeleteLoop(a, conn,
                     [rows |-> r.rows, thrown |-> acc.thrown,
                      attempted |-> acc.attempted + 1,
                      failed |-> acc.failed + Logged(r)],
                     Tail(uris))

\* The outcome of one create when its error is rethrown, not caught.
Rethrow(acc, r) ==
  IF acc.thrown # "none" THEN acc
  ELSE [rows |-> r.rows, thrown |-> r.out.err,
        attempted |-> acc.attempted + 1, failed |-> acc.failed]

\* try { create } catch { log }: the error of the call is dropped.
Catch(acc, r) ==
  [rows |-> r.rows, thrown |-> acc.thrown,
   attempted |-> acc.attempted + 1, failed |-> acc.failed + Logged(r)]

\* for (const post of postsToCreate) { try { create } catch { log } }
RECURSIVE CreateLoop(_, _, _, _)
CreateLoop(a, conn, acc, posts) ==
  IF Len(posts) = 0 THEN acc
  ELSE CreateLoop(a, conn,
                  Catch(acc, posts_create(a, conn, acc.rows, Head(posts),
                                          CHOOSE id \in UUIDs : TRUE)),
                  Tail(posts))

\* The adapter branch of handleEvent: the rows of the adapter afterwards
\* and the error, if any, that reaches the caller.
HandleEventAdapter(a, conn, rows, evt, clock) ==
  IF ~evt.isCommit THEN NoCalls(rows)
  ELSE CreateLoop(a, conn,
                  DeleteLoop(a, conn, NoCalls(rows), evt.deletes),
                  PostsToCreate(evt, clock))

\* The legacy branch: one DELETE ... WHERE uri IN (...), then one INSERT of
\* all rows with ON CONFLICT DO NOTHING.
RECURSIVE InsertDoNothing(_, _)
InsertDoNothing(rows, posts) ==
  IF Len(posts) = 0 THEN rows
  ELSE LET p == Head(posts)
           row == [uri |-> p.uri, cid |-> p.cid,
                   replyParent |-> IF Falsy(p.replyParent) THEN Null ELSE p.replyParent,
                   replyRoot |-> IF Falsy(p.replyRoot) THEN Null ELSE p.replyRoot,
                   authorDid |-> p.authorDid, recordJson |-> p.recordJson,
                   indexedAt |-> ToISOString(p.indexedAt)]
       IN InsertDoNothing(IF \E r \in rows : r.uri = row.uri THEN rows
                          ELSE rows \cup {row},
                          Tail(posts))

HandleEventLegacy(rows, evt, clock) ==
  IF ~evt.isCommit THEN rows
  ELSE InsertDoNothing({r \in rows : r.uri \notin Range(evt.deletes)},
                       PostsToCreate(evt, clock))

\* ===================================================== adapter lifecycle
\* A backend is a server or a file: whether it answers (up), its schema
\* objects (tables, columns, indexes, collections) and the names recorded
\* in its migration ledger.
ConnectionError == "connection refused"
AlreadyExists == "already exists"
NoSuchTable == "no such table"

\* fuse = k > 0: the k-th statement from now fails with a connection error
\* (a fault in the middle of a migration); fuse = 0: no fault is due.
FreshBackend == [up |-> TRUE, schema |-> {}, ledger |-> {}, fuse |-> 0]
Armed(b, k) == [b EXCEPT !.fuse = k]
Disarmed(b) == [b EXCEPT !.fuse = 0]

\* One statement of a migration: the creation of a schema object, which
\* fails when the object exists unless it says IF NOT EXISTS and when the
\* object it builds on is missing, or the insertion of a name into the
\* ledger, whose primary key is the name.
CreateObject(name, on, ifNotExists) ==
  [kind |-> "create", name |-> name, on |-> on, ifNotExists |-> ifNotExists]
RecordStep(name) ==
  [kind |-> "record", name |-> name, on |-> "kysely_migration", ifNotExists |-> FALSE]

\* The backend after one more statement has been sent to it.
Burn(b) == IF b.fuse > 0 THEN [b EXCEPT !.fuse = @ - 1] ELSE b

ExecuteOn(b, stmt) ==
  IF stmt.on # "" /\ stmt.on \notin b.schema
  THEN [backend |-> b, err |-> NoSuchTable]
  ELSE IF stmt.kind = "record"
  THEN IF stmt.name \in b.ledger THEN [backend |-> b, err |-> DuplicateKey]
       ELSE [backend |-> [b EXCEPT !.ledger = @ \cup {stmt.name}], err |-> "none"]
  ELSE IF stmt.name \in b.schema
  THEN [backend |-> b, err |-> IF stmt.ifNotExists THEN "none" ELSE AlreadyExists]
  ELSE [backend |-> [b EXCEPT !.schema = @ \cup {stmt.name}], err |-> "none"]

Execute(b, stmt) ==
  IF ~b.up \/ b.fuse = 1 THEN [backend |-> Burn(b), err |-> ConnectionError]
  ELSE ExecuteOn(Burn(b), stmt)

\* Statements awaited one after the other; the first error ends the run
\* and what was executed before it stays.
\* issued lists the statements sent, the failed one included.
RECURSIVE ExecuteFrom(_, _)
ExecuteFrom(acc, stmts) ==
  IF Len(stmts) = 0 \/ acc.err # "none" THEN acc
  ELSE LET r == Execute(acc.backend, Head(stmts))
       IN ExecuteFrom([backend |-> r.backend, err |-> r.err,
                       issued |-> Append(acc.issued, Head(stmts))],
                      Tail(stmts))

ExecuteAll(b, stmts) ==
  ExecuteFrom([backend |-> b, err |-> "none", issued |-> <<>>], stmts)

\* migrations['001'].up and migrations['002'].up
Migration001 ==
  <<CreateObject("post", "", FALSE),
    CreateObject("sub_state", "", FALSE),
    CreateObject("post_indexed_at_idx", "post", FALSE)>>
Migration002 ==
  <<CreateObject("post.replyParent", "post", FALSE),
    CreateObject("post.replyRoot", "post", FALSE),
    CreateObject("post.authorDid", "post", FALSE),
    CreateObject("post.recordJson", "post", FALSE),
    CreateObject("post_author_did_idx", "post", FALSE)>>

\* The migrator that records a migration before it runs its up().
MigrateToLatestRecordFirst(b) ==
  LET tables == <<CreateObject("kysely_migration", "", TRUE),
                  CreateObject("kysely_migration_lock", "", TRUE)>>
      first == IF "001" \in b.ledger THEN <<>> ELSE <<RecordStep("001")>> \o Migration001
      second == IF "002" \in b.ledger THEN <<>> ELSE <<RecordStep("002")>> \o Migration002
  IN ExecuteAll(b, tables \o first \o second)

\* The migrator that runs migration 001 whatever the ledger holds.
MigrateToLatestNoSkip(b) ==
  LET tables == <<CreateObject("kysely_migration", "", TRUE),
                  CreateObject("kysely_migration_lock", "", TRUE)>>
      first == Migration001 \o <<RecordStep("001")>>
      second == IF "002" \in b.ledger THEN <<>> ELSE Migration002 \o <<RecordStep("002")>>
  IN ExecuteAll(b, tables \o first \o second)

\* Migrator.migrateToLatest: the ledger tables are created if missing, the
\* migrations not in the ledger run in name order, each recorded after its
\* up().
MigrateToLatest(b) ==
  LET tables == <<CreateObject("kysely_migration", "", TRUE),
                  CreateObject("kysely_migration_lock", "", TRUE)>>
      first == IF "001" \in b.ledger THEN <<>> ELSE Migration001 \o <<RecordStep("001")>>
      second == IF "002" \in b.ledger THEN <<>> ELSE Migration002 \o <<RecordStep("002")>>
  IN ExecuteAll(b, tables \o first \o second)

\* ---- SQLiteAdapter
SQLiteAdapter_connect(b) ==
  IF b.up THEN [db |-> TRUE, out |-> Ok(<<>>)]
  ELSE [db |-> FALSE, out |-> Throw(ConnectionError)]

\* disconnect that closes the handle without looking at it.
SQLiteAdapter_disconnectUnguarded(db) ==
  IF db THEN [db |-> FALSE, out |-> Ok(<<>>)]
  ELSE [db |-> FALSE, out |-> Throw("TypeError")]

\* if (this.db) { destroy; this.db = null } if (this.sqliteDb) { close; ... }
SQLiteAdapter_disconnect(db) == [db |-> FALSE, out |-> Ok(<<>>)]

SQLiteAdapter_migrate(db, b) ==
  IF ~db THEN [backend |-> b, out |-> Throw(NotConnected), issued |-> <<>>]
  ELSE LET r == MigrateToLatest(b)
       IN [backend |-> r.backend, out |-> Outcome(r.err), issued |-> r.issued]

\* healthCheck without its try/catch.
SQLiteAdapter_healthCheckNoCatch(db, b) ==
  IF ~db THEN Ok(<<FALSE>>)
  ELSE IF ~b.up THEN Throw(ConnectionError)
  ELSE IF "post" \notin b.schema THEN Throw(NoSuchTable)
  ELSE Ok(<<TRUE>>)

\* try { if (!this.db) return false; select uri from post limit 1; return
\* true } catch { return false }
SQLiteAdapter_healthCheck(db, b) ==
  IF ~db THEN Ok(<<FALSE>>)
  ELSE IF ~b.up \/ "post" \notin b.schema THEN Ok(<<FALSE>>)
  ELSE Ok(<<TRUE>>)

\* ---- PostgreSQLAdapter
\* this.pool is assigned before the test query: it stays assigned when the
\* test query fails.
PostgreSQLAdapter_connect(b) ==
  IF b.up THEN [db |-> TRUE, out |-> Ok(<<>>)]
  ELSE [db |-> TRUE, out |-> Throw(ConnectionError)]

PostgreSQLAdapter_disconnect(pool) == [db |-> FALSE, out |-> Ok(<<>>)]

\* migrate that does not consult the ledger.
PostgreSQLAdapter_migrateAlways(pool, b) ==
  IF ~pool THEN [backend |-> b, out |-> Throw(NotConnected), issued |-> <<>>]
  ELSE LET r == ExecuteAll(b, <<CreateObject("kysely_migration", "", TRUE)>>
                               \o Migration001 \o <<RecordStep("001")>>)
       IN [backend |-> r.backend, out |-> Outcome(r.err), issued |-> r.issued]

\* const appliedNames = new Set(...): the statements of the steps 001 and
\* 002 whose names the SELECT on the ledger did not return, each step
\* followed by its INSERT.
PostgreSQLPending(appliedNames) ==
  (IF "001" \in appliedNames THEN <<>>
   ELSE Migration001 \o <<RecordStep("001")>>)
  \o (IF "002" \in appliedNames THEN <<>>
      ELSE <<CreateObject("post.columns002", "post", FALSE),
             CreateObject("post_author_did_idx", "post", FALSE),
             RecordStep("002")>>)

\* CREATE TABLE IF NOT EXISTS kysely_migration; SELECT name; the steps of
\* 001 and 002 not among the names, each followed by its INSERT.
PostgreSQLAdapter_migrate(pool, b) ==
  IF ~pool THEN [backend |-> b, out |-> Throw(NotConnected), issued |-> <<>>]
  ELSE LET r == ExecuteAll(b, <<CreateObject("kysely_migration", "", TRUE)>>
                               \o PostgreSQLPending(b.ledger))
       IN [backend |-> r.backend, out |-> Outcome(r.err), issued |-> r.issued]

PostgreSQLAdapter_healthCheck(pool, b) ==
  IF ~pool THEN Ok(<<FALSE>>)
  ELSE IF ~b.up THEN Ok(<<FALSE>>)
  ELSE Ok(<<TRUE>>)

\* ---- MongoDBAdapter
\* this.db is assigned after client.connect() has succeeded.
MongoDBAdapter_connect(b) ==
  IF b.up THEN [db |-> TRUE, out |-> Ok(<<>>)]
  ELSE [db |-> FALSE, out |-> Throw(ConnectionError)]

MongoDBAdapter_disconnect(db) == [db |-> FALSE, out |-> Ok(<<>>)]

\* const existingCollections = new Set(...): createCollection for the
\* collections listCollections did not return, then the four createIndex
\* calls; createIndex is a no-op for an index that exists with the same
\* keys.
MongoDBPending(existingCollections) ==
  (IF "posts" \in existingCollections THEN <<>>
   ELSE <<CreateObject("posts", "", FALSE)>>)
  \o (IF "subscription_states" \in existingCollections THEN <<>>
      ELSE <<CreateObject("subscription_states", "", FALSE)>>)
  \o <<CreateObject("posts.uri_1", "posts", TRUE),
        CreateObject("posts.authorDid_1", "posts", TRUE),
        CreateObject("posts.indexedAt_-1", "posts", TRUE),
        CreateObject("subscription_states.service_1", "subscription_states", TRUE)>>

\* listCollections; createCollection for the missing ones; createIndex.
MongoDBAdapter_migrate(db, b) ==
  IF ~db THEN [backend |-> b, out |-> Throw(NotConnected), issued |-> <<>>]
  ELSE LET r == ExecuteAll(b, MongoDBPending(b.schema))
       IN [backend |-> r.backend, out |-> Outcome(r.err), issued |-> r.issued]

MongoDBAdapter_healthCheck(db, b) ==
  IF ~db THEN Ok(<<FALSE>>)
  ELSE IF ~b.up THEN Ok(<<FALSE>>)
  ELSE Ok(<<TRUE>>)

\* ---- dispatch on the adapter
adapter_connect(a, b) ==
  CASE a = "sqlite" -> SQLiteAdapter_connect(b)
    [] a = "postgresql" -> PostgreSQLAdapter_connect(b)
    [] a = "mongodb" -> MongoDBAdapter_connect(b)

adapter_disconnect(a, conn) ==
  CASE a = "sqlite" -> SQLiteAdapter_disconnect(conn)
    [] a = "postgresql" -> PostgreSQLAdapter_disconnect(conn)
    [] a = "mongodb" -> MongoDBAdapter_disconnect(conn)

adapter_migrate(a, conn, b) ==
  CASE a = "sqlite" -> SQLiteAdapter_migrate(conn, b)
    [] a = "postgresql" -> PostgreSQLAdapter_migrate(conn, b)
    [] a = "mongodb" -> MongoDBAdapter_migrate(conn, b)

adapter_healthCheck(a, conn, b) ==
  CASE a = "sqlite" -> SQLiteAdapter_healthCheck(conn, b)
    [] a = "postgresql" -> PostgreSQLAdapter_healthCheck(conn, b)
    [] a = "mongodb" -> MongoDBAdapter_healthCheck(conn, b)

\* The backend of adapter a after connect() and migrate() on a fresh one.
MigratedBackends ==
  [a \in Backends |-> adapter_migrate(a, TRUE, FreshBackend).backend]
MigratedBackend(a) == MigratedBackends[a]

\* ======================================================= adapter factory
\* A DatabaseConfig: its type tag, and its section for that type: complete,
\* present with a required field missing, or absent.
UnsupportedType == "redis"
ConfigTypes == Backends \cup {UnsupportedType}
Sections == {"complete", "partial", "absent"}
DatabaseConfigs == [type : ConfigTypes, section : Sections]

UnsupportedDatabaseType == "Unsupported database type"
ConfigurationRequired == "configuration is required"
FieldsRequired == "fields are required"

\* validateDatabaseConfig: throws for a section without one of the required
\* fields (an absent section has none) and for an unknown tag.
validateDatabaseConfig(config) ==
  IF config.type \notin Backends THEN Throw(UnsupportedDatabaseType)
  ELSE IF config.section # "complete" THEN Throw(FieldsRequired)
  ELSE Ok(<<>>)

\* connect() of the adapter constructed with config: it throws before any
\* connection when the section of its type is absent; otherwise it opens the
\* connection with the fields the section has.
connectWith(config, b) ==
  IF config.section = "absent"
  THEN [db |-> FALSE, out |-> Throw(ConfigurationRequired), attempted |-> FALSE]
  ELSE LET r == adapter_connect(config.type, b)
       IN [db |-> r.db, out |-> r.out, attempted |-> TRUE]

\* The initialization that returns the adapter whatever migrate() did.
InitializeIgnoringMigrate(config, b) ==
  LET c == connectWith(config, b)
      m == adapter_migrate(config.type, c.db, b)
  IN IF c.out.err # "none"
     THEN [out |-> c.out, returned |-> FALSE, db |-> c.db, backend |-> b,
           calls |-> <<"new", "connect">>, attempted |-> c.attempted]
     ELSE [out |-> Ok(<<>>), returned |-> TRUE, db |-> c.db, backend |-> m.backend,
           calls |-> <<"new", "connect", "migrate">>, attempted |-> c.attempted]

\* "Initialize the connection and run migrations": await adapter.connect();
\* await adapter.migrate(); return adapter.  calls lists the constructor and
\* the adapter methods called, attempted tells whether a connection was
\* opened, returned whether the caller got the adapter.
Initialize(config, b) ==
  LET c == connectWith(config, b)
      m == adapter_migrate(config.type, c.db, b)
  IN IF c.out.err # "none"
     THEN [out |-> c.out, returned |-> FALSE, db |-> c.db, backend |-> b,
           calls |-> <<"new", "connect">>, attempted |-> c.attempted]
     ELSE IF m.out.err # "none"
     THEN [out |-> m.out, returned |-> FALSE, db |-> c.db, backend |-> m.backend,
           calls |-> <<"new", "connect", "migrate">>, attempted |-> c.attempted]
     ELSE [out |-> Ok(<<>>), returned |-> TRUE, db |-> c.db, backend |-> m.backend,
           calls |-> <<"new", "connect", "migrate">>, attempted |-> c.attempted]

\* The factory that falls through to the first adapter for an unknown tag.
createDatabaseAdapterOrDefault(config, b) ==
  IF config.type \in Backends THEN Initialize(config, b)
  ELSE Initialize([config EXCEPT !.type = "sqlite"], b)

\* switch (config.type) { case ...: adapter = new XAdapter(config) ...
\* default: throw new Error('Unsupported database type: ...') }, then the
\* initialization.
createDatabaseAdapter(config, b) ==
  IF config.type \notin Backends
  THEN [out |-> Throw(UnsupportedDatabaseType), returned |-> FALSE, db |-> FALSE,
        backend |-> b, calls |-> <<>>, attempted |-> FALSE]
  ELSE Initialize(config, b)

\* ===================================================== whats-alf handler
FetchFactor == 3
MaxFetch == 300

\* Text comparison of two cids.
CidLess(x, y) == x = "c1" /\ y = "c2"

\* The filter callback without its try/catch: the error of JSON.parse or of
\* reading .text of null leaves the callback.
FilterRowNoCatch(row) ==
  LET parsed == JSONParse(row.recordJson)
  IN IF parsed.err # "none" THEN [keep |-> FALSE, thrown |-> parsed.err, warned |-> 0]
     ELSE IF parsed.val.kind = "null"
     THEN [keep |-> FALSE, thrown |-> "TypeError", warned |-> 0]
     ELSE [keep |-> Len(parsed.val.text) > 0
                      /\ Includes(ToLowerCase(parsed.val.text), <<"a", "l", "f">>),
           thrown |-> "none", warned |-> 0]

\* res.filter((row) => { try { record = JSON.parse(row.recordJson);
\* return record.text && record.text.toLowerCase().includes('alf') }
\* catch { console.warn; return false } })
FilterRow(row) ==
  LET parsed == JSONParse(row.recordJson)
  IN IF parsed.err # "none" THEN [keep |-> FALSE, thrown |-> "none", warned |-> 1]
     ELSE IF parsed.val.kind = "null"
     THEN [keep |-> FALSE, thrown |-> "none", warned |-> 1]
     ELSE [keep |-> Len(parsed.val.text) > 0
                      /\ Includes(ToLowerCase(parsed.val.text), <<"a", "l", "f">>),
           thrown |-> "none", warned |-> 0]

KeepRow(row) == FilterRow(row).keep

\* The cursor of a page whose last row is taken to be the last row fetched.
CursorOfFetched(res, limitedPosts) ==
  IF Len(res) = 0 THEN NoCursor
  ELSE NumberToString(DateParse(res[Len(res)].indexedAt))

\* last = limitedPosts.at(-1); if (last) cursor = new Date(last.indexedAt)
\* .getTime().toString(10)
CursorOf(res, limitedPosts) ==
  IF Len(limitedPosts) = 0 THEN NoCursor
  ELSE NumberToString(DateParse(limitedPosts[Len(limitedPosts)].indexedAt))

\* slice(0, limit) that takes one item too many.
SliceOneMore(s, n) == IF Len(s) <= n + 1 THEN s ELSE SubSeq(s, 1, n + 1)

\* alfPosts.slice(0, params.limit)
Slice(s, n) == IF Len(s) <= n THEN s ELSE SubSeq(s, 1, n)

\* The handler from the rows fetched on: filter, slice, feed and cursor.
\* An error that leaves the filter is logged by the outer catch and thrown
\* again.
Respond(res, params) ==
  LET verdict == [i \in 1 .. Len(res) |-> FilterRow(res[i])]
      errors == {i \in 1 .. Len(res) : verdict[i].thrown # "none"}
      alfPosts == SelectSeq(res, KeepRow)
      limitedPosts == Slice(alfPosts, params.limit)
      warned == Cardinality({i \in 1 .. Len(res) : verdict[i].warned = 1})
  IN IF errors # {}
     THEN [out |-> Throw(verdict[CHOOSE i \in errors : \A j \in errors : i <= j].thrown),
           fetched |-> res, warned |-> warned]
     ELSE [out |-> Ok([cursor |-> CursorOf(res, limitedPosts),
                       feed |-> [i \in 1 .. Len(limitedPosts) |->
                                   [post |-> limitedPosts[i].uri]]]),
           fetched |-> res, warned |-> warned]

\* handler(ctx, params) on the rows of ctx.db: every response the query's
\* result order allows (rows equal in indexedAt and cid come in any order).
whatsAlf_handler(rows, params) ==
  LET match == IF params.cursor = NoCursor THEN rows
               ELSE {r \in rows :
                       StrLess(r.indexedAt, ToISOString(ParseInt(params.cursor)))}
      before(x, y) == \/ StrLess(y.indexedAt, x.indexedAt)
                      \/ x.indexedAt = y.indexedAt /\ ~CidLess(x.cid, y.cid)
      ordered == {s \in Perms(match) : \A i \in 1 .. Len(s) - 1 : before(s[i], s[i + 1])}
      fetchLimit == Min(params.limit * FetchFactor, MaxFetch)
  IN {Respond(Take(s, fetchLimit), params) : s \in ordered}

\* The handler whose catch answers a failed query with an empty feed.
handlerEmptyOnError(rows, params, queryError) ==
  IF queryError # "none"
  THEN {[out |-> Ok([cursor |-> NoCursor, feed |-> <<>>]), fetched |-> <<>>,
         warned |-> 0]}
  ELSE whatsAlf_handler(rows, params)

\* try { ... res = await builder.limit(fetchLimit).execute() ... } catch
\* (error) { console.error(...); throw error }: queryError is the error
\* execute() rejects with, "none" when it resolves.
handler(rows, params, queryError) ==
  IF queryError # "none"
  THEN {[out |-> Throw(queryError), fetched |-> <<>>, warned |-> 0]}
  ELSE whatsAlf_handler(rows, params)

\* ===================================================== state
VARIABLES
  connected,     \* connected[a]: the adapter holds a handle / pool / client
  post,          \* post[a]: rows of table post (documents of collection posts)
  sub_state,     \* sub_state[a]: rows of sub_state (subscription_states)
  legacy,        \* rows of table post of the legacy Kysely database
  dbAdapterSet,  \* the FirehoseSubscription has a dbAdapter
  result,        \* the last call: operation, arguments, outcome per adapter
  pager,         \* a client following findMany cursors page by page
  replay,        \* redelivery of a commit: the store after the first delivery
  updated,       \* updated[s]: the cursors of the update calls that returned
  backend,       \* backend[a]: the server or file behind adapter a
  phase,         \* the last of connect() / disconnect() called on the adapters
  loop,          \* the run loop: the handleEvent calls in flight, the last done
  server,        \* the FeedGenerator: its fields and its shutdown calls in flight
  migrators      \* adapter instances of one type inside migrate() at the same time

vars ==
  <<connected, post, sub_state, legacy, dbAdapterSet, result, pager, replay, updated,
    backend, phase, loop, server, migrators>>

\* vars with the operation of the last call first: a step changes varsByOp
\* exactly when it changes vars, and two calls of different operations are
\* told apart by their names, before their outcomes are compared.
varsByOp == <<result.op, vars>>

NoResult == [op |-> "none", arg |-> <<>>, out |-> [a \in Backends |-> Ok(<<>>)]]
IdlePager == [active |-> FALSE, on |-> "sqlite", limit |-> 0, calls |-> 0,
              seen |-> <<>>, page |-> <<>>, done |-> FALSE]
NoReplay == [n |-> 0, evt |-> <<>>, once |-> <<>>, onceLegacy |-> {}]
IdleLoop == [inflight |-> <<>>, last |-> <<>>]

\* Two adapter instances of type a, constructed on the same backend, none
\* of them inside migrate(): at is the position of the migrate() call of
\* an instance, todo the statements it has decided to run, err its error.
Instances == {1, 2}
IdleCall == [at |-> "idle", todo |-> <<>>, err |-> "none"]
Migrators(a) == [on |-> a, calls |-> [i \in Instances |-> IdleCall]]

\* The FeedGenerator returned by FeedGenerator.create(cfg): database is the
\* type tag of cfg.database ("none" without one), dbAdapter tells whether
\* this.dbAdapter is assigned, legacy describes this.db, calls holds the
\* position of every signal handler that is running, disconnects counts the
\* dbAdapter.disconnect() calls made by shutdown().
NoDatabase == "none"
FeedGenerator(database) ==
  [database |-> database, dbAdapter |-> FALSE, started |-> "no",
   legacy |-> [open |-> TRUE, migrated |-> FALSE],
   listening |-> FALSE, running |-> FALSE, isShuttingDown |-> FALSE,
   calls |-> <<>>, disconnects |-> 0, exited |-> FALSE]

InitCommon ==
  /\ connected = [a \in Backends |-> TRUE]
  /\ post = [a \in Backends |-> {}]
  /\ sub_state = [a \in Backends |-> {}]
  /\ legacy = {}
  /\ result = NoResult
  /\ pager = IdlePager
  /\ replay = NoReplay
  /\ updated = [s \in Services |-> <<>>]
  /\ backend = [a \in Backends |-> MigratedBackend(a)]
  /\ phase = "connected"
  /\ loop = IdleLoop
  /\ migrators = Migrators("postgresql")
  /\ server = FeedGenerator(NoDatabase)

\* new FirehoseSubscription(db, service, dbAdapter)
Init == InitCommon /\ dbAdapterSet = TRUE

\* ===================================================== operations
Create(p) ==
  \E id \in UUIDs :
    LET r == [a \in Backends |-> posts_create(a, connected[a], post[a], p, id)]
    IN /\ post' = [a \in Backends |-> r[a].rows]
       /\ result' = [op |-> "create", arg |-> p, out |-> [a \in Backends |-> r[a].out]]
       /\ pager' = IdlePager
       /\ replay' = NoReplay
       /\ UNCHANGED <<migrators, server, loop, backend, phase, connected, sub_state, legacy, dbAdapterSet, updated>>

DeleteByUri(u) ==
  LET r == [a \in Backends |-> posts_deleteByUri(a, connected[a], post[a], u)]
  IN /\ post' = [a \in Backends |-> r[a].rows]
     /\ result' = [op |-> "deleteByUri", arg |-> u, out |-> [a \in Backends |-> r[a].out]]
     /\ pager' = IdlePager
     /\ replay' = NoReplay
     /\ UNCHANGED <<migrators, server, loop, backend, phase, connected, sub_state, legacy, dbAdapterSet, updated>>

FindByUri(u) ==
  /\ result' = [op |-> "findByUri", arg |-> u,
                out |-> [a \in Backends |->
                           posts_findByUri(a, connected[a], post[a], u)]]
  /\ pager' = IdlePager
  /\ replay' = NoReplay
  /\ UNCHANGED <<migrators, server, loop, backend, phase, connected, post, sub_state, legacy, dbAdapterSet, updated>>

\* The criteria tried: with and without author, with and without a cursor
\* (one that has timestamps below, at and above it), limit absent, 0 and up.
Criteria ==
  [authorDid : {Undefined, Author(1)},
   cursor : {NoCursor, ToISOString(10)},
   limit : {NoLimit} \cup (0 .. MaxLimit)]

NoOut == [a \in Backends |-> Ok(<<>>)]

FindMany(a, criteria) ==
  \E o \in posts_findMany(a, connected[a], post[a], criteria) :
    /\ result' = [op |-> "findMany", arg |-> [on |-> a, criteria |-> criteria],
                  out |-> [NoOut EXCEPT ![a] = o]]
    /\ pager' = IdlePager
    /\ replay' = NoReplay
    /\ UNCHANGED <<migrators, server, loop, backend, phase, connected, post, sub_state, legacy, dbAdapterSet, updated>>

\* shutdown(): dbAdapter.disconnect() on every adapter instance.
Disconnect ==
  /\ connected' = [a \in Backends |-> adapter_disconnect(a, connected[a]).db]
  /\ result' = [op |-> "disconnect", arg |-> <<>>,
                out |-> [a \in Backends |-> adapter_disconnect(a, connected[a]).out],
                before |-> connected]
  /\ pager' = IdlePager
  /\ replay' = NoReplay
  /\ phase' = "disconnected"
  /\ UNCHANGED <<migrators, server, loop, backend, post, sub_state, legacy, dbAdapterSet, updated>>

\* handleEvent(evt) on the dbAdapter of every adapter instance: per adapter
\* the rows afterwards, the error that left the handler and the calls made
\* (no calls without a dbAdapter); new Date() reads the wall clock, which
\* the model lets return any timestamp.
Handled(evt, clock) ==
  {<<a, IF dbAdapterSet
        THEN HandleEventAdapter(a, connected[a], post[a], evt, clock)
        ELSE NoCalls(post[a])>> : a \in Backends}

HandledBy(h, a) == (CHOOSE p \in h : p[1] = a)[2]

\* The stores after handleEvent(evt), h being Handled(evt, clock).
ApplyEvent(evt, clock, h) ==
  /\ post' = [a \in Backends |-> HandledBy(h, a).rows]
  /\ legacy' = IF dbAdapterSet THEN legacy ELSE HandleEventLegacy(legacy, evt, clock)
  /\ replay' = IF replay.n >= 1 /\ replay.evt = evt
                THEN [replay EXCEPT !.n = 2]
                ELSE [n |-> 1, evt |-> evt, once |-> post', onceLegacy |-> legacy']
  /\ pager' = IdlePager

\* What handleEvent(evt) hands back to its caller and what it has logged.
HandleEventResult(evt, h) ==
  [op |-> "handleEvent", arg |-> evt,
   out |-> [a \in Backends |->
              IF dbAdapterSet THEN Outcome(HandledBy(h, a).thrown) ELSE Ok(<<>>)],
   log |-> [a \in Backends |->
              [attempted |-> HandledBy(h, a).attempted,
               failed |-> HandledBy(h, a).failed]]]

HandleEvent(evt, clock) ==
  \E h \in {Handled(evt, clock)} :
    /\ ApplyEvent(evt, clock, h)
    /\ result' = HandleEventResult(evt, h)
    /\ UNCHANGED <<migrators, server, loop, backend, phase, connected, sub_state, dbAdapterSet, updated>>

\* A client reading the feed page by page: the first call carries no
\* cursor, every later call the indexedAt of the previous page's last row
\* (indexedAt.toISOString()).
PageFirst(a, n) ==
  /\ connected[a]
  /\ \E o \in posts_findMany(a, connected[a], post[a],
                             [authorDid |-> Undefined, cursor |-> NoCursor, limit |-> n]) :
       /\ result' = [op |-> "pageFirst", arg |-> [on |-> a, limit |-> n],
                     out |-> [NoOut EXCEPT ![a] = o]]
       /\ pager' = [active |-> TRUE, on |-> a, limit |-> n, calls |-> 1,
                    seen |-> o.val, page |-> o.val, done |-> (o.val = <<>>)]
  /\ replay' = NoReplay
  /\ UNCHANGED <<migrators, server, loop, backend, phase, connected, post, sub_state, legacy, dbAdapterSet, updated>>

PageNext ==
  /\ pager.active
  /\ ~pager.done
  /\ LET a == pager.on
         last == pager.page[Len(pager.page)]
     IN \E o \in posts_findMany(a, connected[a], post[a],
                                [authorDid |-> Undefined,
                                 cursor |-> ToISOString(last.indexedAt),
                                 limit |-> pager.limit]) :
          /\ result' = [op |-> "pageNext", arg |-> [on |-> a, limit |-> pager.limit],
                        out |-> [NoOut EXCEPT ![a] = o]]
          /\ pager' = [pager EXCEPT !.calls = pager.calls + 1,
                                    !.seen = pager.seen \o o.val,
                                    !.page = o.val,
                                    !.done = (o.val = <<>>)]
  /\ replay' = NoReplay
  /\ UNCHANGED <<migrators, server, loop, backend, phase, connected, post, sub_state, legacy, dbAdapterSet, updated>>

Next ==
  \/ \E p \in PostInputs : Create(p)
  \/ \E u \in Uris : DeleteByUri(u)
  \/ \E u \in Uris : FindByUri(u)
  \/ \E a \in Backends, c \in Criteria : FindMany(a, c)
  \/ \E e \in SingleOpEvents, t \in Times : HandleEvent(e, t)
  \/ \E a \in Backends, n \in 1 .. MaxLimit : PageFirst(a, n)
  \/ PageNext

Spec == Init /\ [][Next]_vars

\* ----------------------------------------------------- ingestion alone
\* The FirehoseSubscription with and without a dbAdapter, fed commits.
InitPipeline == InitCommon /\ dbAdapterSet \in BOOLEAN

NextPipeline ==
  \/ \E e \in Events, t \in Times : HandleEvent(e, t)
  \/ Disconnect

SpecPipeline == InitPipeline /\ [][NextPipeline]_vars

\* ----------------------------------------------------- subscription state
SubGet(s) ==
  /\ result' = [op |-> "subGet", arg |-> s,
                out |-> [a \in Backends |->
                           subscriptionState_get(a, connected[a], sub_state[a], s)]]
  /\ pager' = IdlePager
  /\ replay' = NoReplay
  /\ UNCHANGED <<migrators, server, loop, backend, phase, connected, post, sub_state, legacy, dbAdapterSet, updated>>

SubUpdate(s, c) ==
  /\ Len(updated[s]) < MaxUpdates
  /\ LET r == [a \in Backends |->
                 subscriptionState_update(a, connected[a], sub_state[a], s, c)]
     IN /\ sub_state' = [a \in Backends |-> r[a].rows]
        /\ result' = [op |-> "subUpdate", arg |-> [service |-> s, cursor |-> c],
                      out |-> [a \in Backends |-> r[a].out]]
        /\ updated' = IF \A a \in Backends : r[a].out.err = "none"
                      THEN [updated EXCEPT ![s] = Append(@, c)]
                      ELSE updated
  /\ pager' = IdlePager
  /\ replay' = NoReplay
  /\ UNCHANGED <<migrators, server, loop, backend, phase, connected, post, legacy, dbAdapterSet>>

NextSub ==
  \/ \E s \in Services : SubGet(s)
  \/ \E s \in Services, c \in Cursors : SubUpdate(s, c)
  \/ Disconnect

SpecSub == Init /\ [][NextSub]_vars

\* ----------------------------------------------------- ingestion run loop
\* The step of the run loop that follows handleEvent: the cursor is written
\* only when no record of the batch failed.
AdvanceCursorIfClean(a, conn, rows, service, cursor, log) ==
  IF log.failed > 0 THEN [rows |-> rows, out |-> Ok(<<>>)]
  ELSE subscriptionState_update(a, conn, rows, service, cursor)

\* The step of the run loop that follows handleEvent: the SubscriptionState
\* of the service is set to the cursor of the batch, whatever the handler
\* has logged.
AdvanceCursor(a, conn, rows, service, cursor, log) ==
  subscriptionState_update(a, conn, rows, service, cursor)

\* One turn of the run loop of the subscription of service s: the batch is
\* handed to handleEvent, then the cursor is advanced.
Run(s, evt, clock, cursor) ==
  /\ Len(updated[s]) < MaxUpdates
  /\ \E h \in {Handled(evt, clock)} :
       /\ ApplyEvent(evt, clock, h)
       /\ LET log == HandleEventResult(evt, h).log
              r == [a \in Backends |->
                      AdvanceCursor(a, connected[a], sub_state[a], s, cursor, log[a])]
          IN /\ sub_state' = [a \in Backends |-> r[a].rows]
             /\ result' = [op |-> "run",
                           arg |-> [service |-> s, cursor |-> cursor, evt |-> evt],
                           out |-> [a \in Backends |-> r[a].out],
                           log |-> log]
             /\ updated' = IF \A a \in Backends : r[a].out.err = "none"
                           THEN [updated EXCEPT ![s] = Append(@, cursor)]
                           ELSE updated
  /\ UNCHANGED <<migrators, server, loop, backend, phase, connected, dbAdapterSet>>

\* The service the subscription was constructed for.
SubscriptionService == "s1"

NextIngest ==
  \E e \in SingleOpEvents, t \in Times, c \in Cursors :
    Run(SubscriptionService, e, t, c)

SpecIngest == Init /\ [][NextIngest]_vars

\* ------------------------------------------- the run loop, step by step
\* The commits of the stream: the create operation of a uri, and batches of
\* one and of several records.
CreateOf(u) == CHOOSE o \in CreateOps : o.uri = u

LoopEvents ==
  {[isCommit |-> FALSE, deletes |-> <<>>, creates |-> <<>>],
   [isCommit |-> TRUE, deletes |-> <<"u1">>,
    creates |-> <<CreateOf("u1"), CreateOf("u2")>>],
   [isCommit |-> TRUE, deletes |-> <<>>, creates |-> <<CreateOf("u2")>>],
   [isCommit |-> TRUE, deletes |-> <<"u2">>, creates |-> <<CreateOf("u1")>>],
   [isCommit |-> TRUE, deletes |-> <<"u1", "u2">>, creates |-> <<>>]}

\* A handleEvent call in flight: its commit, the rows postsToCreate holds
\* (stamped when the call starts), the cursor of the batch, the numbers of
\* delete and create records its statements have carried so far, the
\* statements it has issued and what it has logged per adapter.
Invocation(evt, clock, cursor) ==
  [evt |-> evt, postsToCreate |-> PostsToCreate(evt, clock), cursor |-> cursor,
   d |-> 0, c |-> 0, issued |-> <<>>,
   log |-> [a \in Backends |-> [attempted |-> 0, failed |-> 0]]]

\* The next write statement of a handleEvent call and the records it
\* carries: with a dbAdapter one deleteByUri per uri, then one create per
\* post; without, one DELETE of all uris, then one INSERT of all rows; none
\* when the handler returns.
NextStatement(inv, adapterSet) ==
  IF inv.evt.isCommit /\ inv.d < Len(inv.evt.deletes)
  THEN [kind |-> "delete", from |-> inv.d + 1,
        n |-> IF adapterSet THEN 1 ELSE Len(inv.evt.deletes)]
  ELSE IF inv.evt.isCommit /\ inv.c < Len(inv.evt.creates)
  THEN [kind |-> "create", from |-> inv.c + 1,
        n |-> IF adapterSet THEN 1 ELSE Len(inv.evt.creates)]
  ELSE [kind |-> "return", from |-> 0, n |-> 0]

\* The loop takes the next event when the handleEvent call of the previous
\* one has returned and its cursor has been written.
MayAccept(inflight) == inflight = <<>>

\* The seq of the n-th event of the stream and the wall clock when it
\* arrives.
SeqAt(n) == n + 1
ClockAt(n) == (CHOOSE t \in Times : \A u \in Times : t <= u) + n

Accept(evt) ==
  /\ MayAccept(loop.inflight)
  /\ Len(updated[SubscriptionService]) < MaxUpdates
  /\ LET n == Len(updated[SubscriptionService])
     IN loop' = [loop EXCEPT
                   !.inflight = Append(@, Invocation(evt, ClockAt(n), SeqAt(n)))]
  /\ result' = [op |-> "accept", arg |-> evt, out |-> NoOut]
  /\ pager' = IdlePager
  /\ replay' = NoReplay
  /\ UNCHANGED <<migrators, server, backend, phase, connected, post, sub_state, legacy, dbAdapterSet, updated>>

\* The handleEvent call k issues its next statement and awaits it.
Write(k) ==
  LET inv == loop.inflight[k]
      st == NextStatement(inv, dbAdapterSet)
      uris == SubSeq(inv.evt.deletes, st.from, st.from + st.n - 1)
      posts == SubSeq(inv.postsToCreate, st.from, st.from + st.n - 1)
      acc == [a \in Backends |->
                IF st.kind = "delete"
                THEN DeleteLoop(a, connected[a], NoCalls(post[a]), uris)
                ELSE CreateLoop(a, connected[a], NoCalls(post[a]), posts)]
  IN /\ st.kind # "return"
     /\ post' = IF dbAdapterSet THEN [a \in Backends |-> acc[a].rows] ELSE post
     /\ legacy' = IF dbAdapterSet THEN legacy
                  ELSE IF st.kind = "delete"
                  THEN {r \in legacy : r.uri \notin Range(uris)}
                  ELSE InsertDoNothing(legacy, posts)
     /\ loop' = [loop EXCEPT !.inflight[k] =
                   [inv EXCEPT
                      !.d = IF st.kind = "delete" THEN @ + st.n ELSE @,
                      !.c = IF st.kind = "create" THEN @ + st.n ELSE @,
                      !.issued = Append(@, [kind |-> st.kind, n |-> st.n]),
                      !.log = [a \in Backends |->
                                 IF dbAdapterSet
                                 THEN [attempted |-> @[a].attempted + acc[a].attempted,
                                       failed |-> @[a].failed + acc[a].failed]
                                 ELSE @[a]]]]
     /\ result' = [op |-> "write", arg |-> inv.evt, out |-> NoOut]
     /\ pager' = IdlePager
     /\ replay' = NoReplay
     /\ UNCHANGED <<migrators, server, backend, phase, connected, sub_state, dbAdapterSet, updated>>

\* The handleEvent call k has returned: the loop writes the cursor of its
\* batch and the call is over.
Return(k) ==
  LET inv == loop.inflight[k]
      r == [a \in Backends |->
              AdvanceCursor(a, connected[a], sub_state[a], SubscriptionService,
                            inv.cursor, inv.log[a])]
  IN /\ NextStatement(inv, dbAdapterSet).kind = "return"
     /\ sub_state' = [a \in Backends |-> r[a].rows]
     /\ updated' = IF \A a \in Backends : r[a].out.err = "none"
                   THEN [updated EXCEPT ![SubscriptionService] = Append(@, inv.cursor)]
                   ELSE updated
     /\ loop' = [inflight |-> SubSeq(loop.inflight, 1, k - 1)
                                \o SubSeq(loop.inflight, k + 1, Len(loop.inflight)),
                 last |-> <<[evt |-> inv.evt,
                             issued |-> Append(inv.issued, [kind |-> "cursor", n |-> 1])]>>]
     /\ result' = [op |-> "return", arg |-> inv.evt,
                   out |-> [a \in Backends |-> r[a].out]]
     /\ pager' = IdlePager
     /\ replay' = NoReplay
     /\ UNCHANGED <<migrators, server, backend, phase, connected, post, legacy, dbAdapterSet>>

InitLoop == InitCommon /\ dbAdapterSet \in BOOLEAN

NextLoop ==
  \/ \E evt \in LoopEvents : Accept(evt)
  \/ \E k \in 1 .. Len(loop.inflight) : Write(k)
  \/ \E k \in 1 .. Len(loop.inflight) : Return(k)

SpecLoop == InitLoop /\ [][NextLoop]_vars

\* ----------------------------------------------------- adapter lifecycle
\* new SQLiteAdapter(config), new PostgreSQLAdapter(config), new
\* MongoDBAdapter(config): no handle, and backends nothing has been run on.
InitLifecycle ==
  /\ connected = [a \in Backends |-> FALSE]
  /\ post = [a \in Backends |-> {}]
  /\ sub_state = [a \in Backends |-> {}]
  /\ legacy = {}
  /\ dbAdapterSet = TRUE
  /\ result = NoResult
  /\ pager = IdlePager
  /\ replay = NoReplay
  /\ updated = [s \in Services |-> <<>>]
  /\ backend = [a \in Backends |-> FreshBackend]
  /\ phase = "new"
  /\ loop = IdleLoop
  /\ migrators = Migrators("postgresql")
  /\ server = FeedGenerator(NoDatabase)

\* connect() on every adapter; it is called on adapters that hold no
\* connection from an earlier connect().
Connect ==
  /\ phase # "connected"
  /\ LET r == [a \in Backends |-> adapter_connect(a, backend[a])]
     IN /\ connected' = [a \in Backends |-> r[a].db]
        /\ result' = [op |-> "connect", arg |-> <<>>, out |-> [a \in Backends |-> r[a].out]]
        /\ phase' = IF \A a \in Backends : r[a].out.err = "none" THEN "connected"
                    ELSE "failed"
  /\ pager' = IdlePager
  /\ replay' = NoReplay
  /\ UNCHANGED <<migrators, server, loop, backend, post, sub_state, legacy, dbAdapterSet, updated>>

\* migrate() on every adapter; for k > 0 the backends fail at the k-th
\* statement they receive during the call.
Migrate(k) ==
  /\ LET r == [a \in Backends |->
                 adapter_migrate(a, connected[a], Armed(backend[a], k))]
     IN /\ backend' = [a \in Backends |-> Disarmed(r[a].backend)]
        /\ result' = [op |-> "migrate", arg |-> <<>>,
                      out |-> [a \in Backends |-> r[a].out], before |-> backend,
                      issued |-> [a \in Backends |-> r[a].issued], fault |-> k]
  /\ pager' = IdlePager
  /\ replay' = NoReplay
  /\ UNCHANGED <<migrators, server, loop, phase, connected, post, sub_state, legacy, dbAdapterSet, updated>>

\* healthCheck() on every adapter.
HealthCheck ==
  /\ result' = [op |-> "healthCheck", arg |-> <<>>,
                out |-> [a \in Backends |->
                           adapter_healthCheck(a, connected[a], backend[a])]]
  /\ pager' = IdlePager
  /\ replay' = NoReplay
  /\ UNCHANGED <<migrators, server, loop, backend, phase, connected, post, sub_state, legacy, dbAdapterSet, updated>>

\* The servers and the file behind the adapters stop and start answering.
BackendFault(up) ==
  /\ \A a \in Backends : backend[a].up # up
  /\ backend' = [a \in Backends |-> [backend[a] EXCEPT !.up = up]]
  /\ result' = [op |-> "fault", arg |-> up, out |-> NoOut]
  /\ pager' = IdlePager
  /\ replay' = NoReplay
  /\ UNCHANGED <<migrators, server, loop, phase, connected, post, sub_state, legacy, dbAdapterSet, updated>>

\* The data operations are called on adapters without a handle or on
\* adapters whose backend answers and has been migrated.
Ready ==
  \A a \in Backends : connected[a] => backend[a] = MigratedBackend(a)

LifecyclePost == MkPost("u1", 10, 1)
LifecycleCriteria == [authorDid |-> Undefined, cursor |-> NoCursor, limit |-> NoLimit]

NextLifecycle ==
  \/ Connect
  \/ Disconnect
  \/ Migrate(0)
  \/ HealthCheck
  \/ \E up \in BOOLEAN : BackendFault(up)
  \/ Ready /\ Create(LifecyclePost)
  \/ Ready /\ DeleteByUri(LifecyclePost.uri)
  \/ Ready /\ FindByUri(LifecyclePost.uri)
  \/ Ready /\ \E a \in Backends : FindMany(a, LifecycleCriteria)
  \/ Ready /\ SubGet(SubscriptionService)
  \/ Ready /\ SubUpdate(SubscriptionService, 1)

SpecLifecycle == InitLifecycle /\ [][NextLifecycle]_vars

\* ------------------------------------------------------ getAlgorithmFeed
Algorithms == {"test-algo"}

GetAlgorithmFeed(a, algorithm, limit, cursor) ==
  \E o \in posts_getAlgorithmFeed(a, connected[a], post[a], algorithm, limit, cursor) :
    /\ result' = [op |-> "getAlgorithmFeed",
                  arg |-> [on |-> a, algorithm |-> algorithm, limit |-> limit,
                           cursor |-> cursor],
                  out |-> o]
    /\ pager' = IdlePager
    /\ replay' = NoReplay
    /\ UNCHANGED <<migrators, server, loop, backend, phase, connected, post, sub_state, legacy, dbAdapterSet, updated>>

NextAlgorithmFeed ==
  \/ \E p \in PostInputs : Create(p)
  \/ \E u \in Uris : DeleteByUri(u)
  \/ Disconnect
  \/ \E a \in Backends, g \in Algorithms, n \in 0 .. MaxFeedLimit,
         c \in {NoCursor} \cup {ToISOString(t) : t \in Times} :
       GetAlgorithmFeed(a, g, n, c)

SpecAlgorithmFeed == Init /\ [][NextAlgorithmFeed]_vars

\* ------------------------------------------------ factory and migrations
\* The number of statements of the longest migrate().
LongestMigration == Len(MigrateToLatest(FreshBackend).issued)

\* No backend is left half migrated by an earlier fault.
Clean == \A a \in Backends : backend[a].schema \in {{}, MigratedBackend(a).schema}

\* The backend the factory's adapter talks to; there is none for an unknown
\* type tag.
BackendOf(config) ==
  IF config.type \in Backends THEN backend[config.type] ELSE FreshBackend

\* createDatabaseAdapter(config); for k > 0 the backend fails at the k-th
\* statement it receives during the call.  connected[a] afterwards tells
\* whether the caller holds an adapter of that type.
CreateDatabaseAdapter(config, k) ==
  /\ \E r \in {createDatabaseAdapter(config, Armed(BackendOf(config), k))} :
        /\ backend' = [a \in Backends |->
                         IF a = config.type THEN Disarmed(r.backend) ELSE backend[a]]
        /\ connected' = [a \in Backends |->
                           IF a = config.type THEN r.returned ELSE connected[a]]
        /\ result' = [op |-> "createDatabaseAdapter", arg |-> config,
                      out |-> r.out, returned |-> r.returned, db |-> r.db,
                      calls |-> r.calls, attempted |-> r.attempted,
                      before |-> BackendOf(config), fault |-> k]
  /\ pager' = IdlePager
  /\ replay' = NoReplay
  /\ UNCHANGED <<migrators, server, loop, phase, post, sub_state, legacy, dbAdapterSet, updated>>

\* The configurations with which the adapter reaches its backend.
Connecting == {config \in DatabaseConfigs :
                 config.type \in Backends /\ config.section = "complete"}

\* At most one backend suffers a fault in the middle of a migration.
NextFactory ==
  \/ \E config \in DatabaseConfigs : CreateDatabaseAdapter(config, 0)
  \/ \E config \in Connecting, k \in 1 .. LongestMigration :
       Clean /\ CreateDatabaseAdapter(config, k)
  \/ \E up \in BOOLEAN : BackendFault(up)

SpecFactory == InitLifecycle /\ [][NextFactory]_vars

NextMigration ==
  \/ Connect
  \/ \E k \in 0 .. LongestMigration : Migrate(k)

SpecMigration == InitLifecycle /\ [][NextMigration]_vars

\* ------------------------------------------------ the operations together
\* Every operation of the storage contract on adapters that hold posts of
\* two uris and the state of two services.
ContractPosts == {MkPost(u, 10, 1) : u \in {"u1", "u3"}}

NextContract ==
  \/ \E p \in ContractPosts : Create(p)
  \/ \E p \in ContractPosts : DeleteByUri(p.uri)
  \/ \E p \in ContractPosts : FindByUri(p.uri)
  \/ \E a \in Backends : FindMany(a, LifecycleCriteria)
  \/ \E s \in Services : SubGet(s)
  \/ \E s \in Services, c \in 1 .. 2 : SubUpdate(s, c)
  \/ HealthCheck
  \/ Disconnect

SpecContract == Init /\ [][NextContract]_vars

\* ----------------------------------------------------- whats-alf feed
\* Stored payloads: texts with and without "alf", a text that is no JSON
\* and the JSON value null.
PayloadsOf(u) ==
  CASE u = "u1" -> {JSONStringify([text |-> <<"A", "l", "f">>]), <<"i", "n", "v">>}
    [] u = "u2" -> {JSONStringify([text |-> <<"h", "a", "l", "f">>]),
                    JSONStringify([text |-> <<"c", "a", "t">>])}
    [] OTHER -> {JSONStringify([text |-> <<"a", "l", "f", "a">>]), <<"n", "u", "l", "l">>}

FeedCid(u) == IF u = "u3" THEN "c2" ELSE "c1"

FeedRows ==
  UNION {{[uri |-> u, cid |-> FeedCid(u), replyParent |-> Null, replyRoot |-> Null,
           authorDid |-> Author(1), recordJson |-> j, indexedAt |-> ToISOString(t)] :
            j \in PayloadsOf(u), t \in Times} : u \in Uris}

FeedParams ==
  [limit : 1 .. MaxFeedLimit, cursor : {NoCursor} \cup {NumberToString(t) : t \in Times}]

\* db.insertInto('post').values(row).execute() on the legacy database; uri
\* is the primary key of table post.
InsertPost(row) ==
  /\ legacy' = IF \E r \in legacy : r.uri = row.uri THEN legacy ELSE legacy \cup {row}
  /\ result' = [op |-> "insertPost", arg |-> row,
                out |-> IF \E r \in legacy : r.uri = row.uri THEN Throw(DuplicateKey)
                        ELSE Ok(<<>>)]
  /\ pager' = IdlePager
  /\ replay' = NoReplay
  /\ UNCHANGED <<migrators, server, loop, backend, phase, connected, post, sub_state, dbAdapterSet, updated>>

\* The errors the query of the handler is made to fail with.
QueryErrors == {"none", ConnectionError}

\* getFeedSkeleton answered by the whats-alf handler on ctx.db, whose query
\* resolves or rejects with queryError.
GetFeed(params, queryError) ==
  /\ \E o \in handler(legacy, params, queryError) :
       result' = [op |-> "getFeed", arg |-> params, out |-> o.out,
                  fetched |-> o.fetched, warned |-> o.warned,
                  queryError |-> queryError]
  /\ pager' = IdlePager
  /\ replay' = NoReplay
  /\ UNCHANGED <<migrators, server, loop, backend, phase, connected, post, sub_state, legacy, dbAdapterSet, updated>>

InitFeed == InitCommon /\ dbAdapterSet = FALSE

NextFeed ==
  \/ \E row \in FeedRows : InsertPost(row)
  \/ \E params \in FeedParams, e \in QueryErrors : GetFeed(params, e)

SpecFeed == InitFeed /\ [][NextFeed]_vars

\* ------------------------------------------------ feed pagination
\* A client of getFeedSkeleton that follows the cursors of the whats-alf
\* handler over a legacy database nobody writes to.  The stores tried hold
\* up to four posts, the post of a later uri indexed earlier, each with a
\* text that matches the filter or one that does not.
PagingUris == <<"u1", "u2", "u3", "u4">>
PagingTexts == {<<"A", "L", "F">>, <<"c", "a", "t">>}
PagingRow(k, text) ==
  [uri |-> PagingUris[k], cid |-> "c1", replyParent |-> Null, replyRoot |-> Null,
   authorDid |-> Author(1), recordJson |-> JSONStringify([text |-> text]),
   indexedAt |-> ToISOString(9 + MaxTick + 2 - k)]
PagingStores ==
  {{PagingRow(k, text[k]) : k \in K} :
     K \in SUBSET (1 .. Len(PagingUris)), text \in [1 .. Len(PagingUris) -> PagingTexts]}

InitPaging ==
  /\ connected = [a \in Backends |-> TRUE]
  /\ post = [a \in Backends |-> {}]
  /\ sub_state = [a \in Backends |-> {}]
  /\ legacy \in PagingStores
  /\ result = NoResult
  /\ pager = IdlePager
  /\ replay = NoReplay
  /\ updated = [s \in Services |-> <<>>]
  /\ backend = [a \in Backends |-> MigratedBackend(a)]
  /\ phase = "connected"
  /\ loop = IdleLoop
  /\ migrators = Migrators("postgresql")
  /\ server = FeedGenerator(NoDatabase)
  /\ dbAdapterSet = FALSE

FeedUrisOf(feed) == [i \in 1 .. Len(feed) |-> feed[i].post]

\* The first request: no cursor.
FeedFirst(n) ==
  /\ \E o \in handler(legacy, [limit |-> n, cursor |-> NoCursor], "none") :
       /\ result' = [op |-> "feedFirst", arg |-> n, out |-> o.out,
                     fetched |-> o.fetched]
       /\ pager' = [active |-> TRUE, on |-> "feed", limit |-> n, calls |-> 1,
                    seen |-> FeedUrisOf(o.out.val.feed),
                    page |-> FeedUrisOf(o.out.val.feed),
                    done |-> (o.out.val.cursor = NoCursor),
                    cursor |-> o.out.val.cursor]
  /\ replay' = NoReplay
  /\ UNCHANGED <<migrators, server, loop, backend, phase, connected, post,
                 sub_state, legacy, dbAdapterSet, updated>>

\* Every later request carries the cursor of the previous response, until a
\* response has none.
FeedNext ==
  /\ pager.active
  /\ pager.on = "feed"
  /\ ~pager.done
  /\ \E o \in handler(legacy, [limit |-> pager.limit, cursor |-> pager.cursor], "none") :
       /\ result' = [op |-> "feedNext", arg |-> pager.cursor, out |-> o.out,
                     fetched |-> o.fetched]
       /\ pager' = [pager EXCEPT !.calls = pager.calls + 1,
                                 !.seen = pager.seen \o FeedUrisOf(o.out.val.feed),
                                 !.page = FeedUrisOf(o.out.val.feed),
                                 !.done = (o.out.val.cursor = NoCursor),
                                 !.cursor = o.out.val.cursor]
  /\ replay' = NoReplay
  /\ UNCHANGED <<migrators, server, loop, backend, phase, connected, post,
                 sub_state, legacy, dbAdapterSet, updated>>

NextPaging ==
  \/ \E n \in 1 .. MaxFeedLimit : FeedFirst(n)
  \/ FeedNext

SpecPaging == InitPaging /\ [][NextPaging]_vars

\* ------------------------------------------------ concurrent migrations
\* Two connected adapter instances of one type on one fresh backend.
InitConcurrent ==
  /\ connected = [a \in Backends |-> TRUE]
  /\ post = [a \in Backends |-> {}]
  /\ sub_state = [a \in Backends |-> {}]
  /\ legacy = {}
  /\ dbAdapterSet = FALSE
  /\ result = NoResult
  /\ pager = IdlePager
  /\ replay = NoReplay
  /\ updated = [s \in Services |-> <<>>]
  /\ backend = [a \in Backends |-> FreshBackend]
  /\ phase = "connected"
  /\ loop = IdleLoop
  /\ server = FeedGenerator(NoDatabase)
  /\ migrators \in {Migrators(a) : a \in {"postgresql", "mongodb"}}

\* What a migrate() call sends before it reads what has been applied, and
\* the statements it decides on when it reads.
Prologue(a) ==
  IF a = "postgresql" THEN <<CreateObject("kysely_migration", "", TRUE)>> ELSE <<>>
Pending(a, b) ==
  IF a = "postgresql" THEN PostgreSQLPending(b.ledger) ELSE MongoDBPending(b.schema)

\* Instance i enters migrate() and awaits its first statement.
MigrateBegin(i) ==
  LET a == migrators.on
      r == ExecuteAll(backend[a], Prologue(a))
  IN /\ migrators.calls[i].at = "idle"
     /\ backend' = [backend EXCEPT ![a] = r.backend]
     /\ migrators' = [migrators EXCEPT !.calls[i].at = "begun"]
     /\ result' = [op |-> "migrateBegin", arg |-> i, out |-> Outcome(r.err)]
     /\ pager' = IdlePager
     /\ replay' = NoReplay
     /\ UNCHANGED <<server, loop, phase, connected, post, sub_state, legacy,
                    dbAdapterSet, updated>>

\* The SELECT on the ledger / listCollections of instance i resolves: the
\* instance decides which statements it will run.
MigrateRead(i) ==
  LET a == migrators.on
  IN /\ migrators.calls[i].at = "begun"
     /\ migrators' = [migrators EXCEPT
                        !.calls[i].at = "running",
                        !.calls[i].todo = Pending(a, backend[a])]
     /\ result' = [op |-> "migrateRead", arg |-> i, out |-> Ok(<<>>)]
     /\ pager' = IdlePager
     /\ replay' = NoReplay
     /\ UNCHANGED <<server, loop, backend, phase, connected, post, sub_state,
                    legacy, dbAdapterSet, updated>>

\* Instance i awaits its next statement: an error ends its migrate() with
\* that error, the last statement ends it with success.
MigrateStatement(i) ==
  LET a == migrators.on
      call == migrators.calls[i]
  IN /\ call.at = "running"
     /\ IF call.todo = <<>>
        THEN /\ migrators' = [migrators EXCEPT !.calls[i].at = "done"]
             /\ result' = [op |-> "migrateStatement", arg |-> i, out |-> Ok(<<>>)]
             /\ backend' = backend
        ELSE \E r \in {Execute(backend[a], Head(call.todo))} :
               /\ backend' = [backend EXCEPT ![a] = r.backend]
               /\ migrators' = [migrators EXCEPT
                                  !.calls[i] =
                                    IF r.err # "none"
                                    THEN [at |-> "failed", todo |-> <<>>, err |-> r.err]
                                    ELSE [call EXCEPT !.todo = Tail(call.todo)]]
               /\ result' = [op |-> "migrateStatement", arg |-> i,
                             out |-> Outcome(r.err)]
     /\ pager' = IdlePager
     /\ replay' = NoReplay
     /\ UNCHANGED <<server, loop, phase, connected, post, sub_state, legacy,
                    dbAdapterSet, updated>>

NextConcurrent ==
  \/ \E i \in Instances : MigrateBegin(i)
  \/ \E i \in Instances : MigrateRead(i)
  \/ \E i \in Instances : MigrateStatement(i)

SpecConcurrent == InitConcurrent /\ [][NextConcurrent]_vars

\* ------------------------------------------------------------ the server
\* FeedGenerator.create(cfg) has returned: the firehose subscription was
\* built on the legacy database without a dbAdapter, no adapter exists yet
\* and nothing has run on the backends.
ServerConfigs == Backends \cup {NoDatabase}

InitServer ==
  /\ connected = [a \in Backends |-> FALSE]
  /\ post = [a \in Backends |-> {}]
  /\ sub_state = [a \in Backends |-> {}]
  /\ legacy = {}
  /\ dbAdapterSet = FALSE
  /\ result = NoResult
  /\ pager = IdlePager
  /\ replay = NoReplay
  /\ updated = [s \in Services |-> <<>>]
  /\ backend = [a \in Backends |-> FreshBackend]
  /\ phase = "new"
  /\ loop = IdleLoop
  /\ migrators = Migrators("postgresql")
  /\ server \in {FeedGenerator(d) : d \in ServerConfigs}
  /\ migrators = Migrators("postgresql")

\* The process runs until process.exit.
Alive == ~server.exited

\* start(): with cfg.database the adapter comes from createDatabaseAdapter
\* (for k > 0 the backend fails at the k-th statement of the call) and is
\* kept in this.dbAdapter, otherwise the legacy database is migrated; then
\* the firehose runs and the HTTP server listens.  An error of the factory
\* leaves start() before either.
Start(k) ==
  /\ Alive
  /\ server.started = "no"
  /\ IF server.database # NoDatabase /\ ~server.dbAdapter
     THEN \E r \in {createDatabaseAdapter(
                      [type |-> server.database, section |-> "complete"],
                      Armed(backend[server.database], k))} :
            /\ backend' = [backend EXCEPT ![server.database] = Disarmed(r.backend)]
            /\ connected' = [connected EXCEPT ![server.database] = r.returned]
            /\ server' = [server EXCEPT
                            !.dbAdapter = r.returned,
                            !.started = IF r.returned THEN "yes" ELSE "failed",
                            !.running = r.returned,
                            !.listening = r.returned]
            /\ result' = [op |-> "start", arg |-> server.database, out |-> r.out]
     ELSE /\ k = 0
          /\ server' = [server EXCEPT
                          !.legacy.migrated = TRUE, !.started = "yes",
                          !.running = TRUE, !.listening = TRUE]
          /\ result' = [op |-> "start", arg |-> server.database, out |-> Ok(<<>>)]
          /\ UNCHANGED <<migrators, backend, connected>>
  /\ pager' = IdlePager
  /\ replay' = NoReplay
  /\ UNCHANGED <<migrators, loop, phase, post, sub_state, legacy, dbAdapterSet, updated>>

\* process.on(signal, async () => { await this.shutdown(); process.exit(0) })
\* one of the three signals arrives and its handler is entered.
Signal ==
  /\ Alive
  /\ Len(server.calls) < MaxSignals
  /\ server' = [server EXCEPT !.calls = Append(@, "shutdown")]
  /\ result' = [op |-> "signal", arg |-> Len(server.calls) + 1, out |-> Ok(<<>>)]
  /\ pager' = IdlePager
  /\ replay' = NoReplay
  /\ UNCHANGED <<migrators, loop, backend, phase, connected, post, sub_state, legacy,
                 dbAdapterSet, updated>>

\* shutdown() from the callback of server.close() to its next await: the
\* "firehose will close on process exit" message, then
\* this.dbAdapter.disconnect() is called if there is an adapter, otherwise
\* this.db.destroy().
Closed(sv, i) ==
  IF sv.dbAdapter
  THEN [sv EXCEPT !.listening = FALSE, !.disconnects = @ + 1,
                  !.calls[i] = "disconnecting"]
  ELSE [sv EXCEPT !.listening = FALSE, !.legacy.open = FALSE,
                  !.calls[i] = "destroying"]

\* shutdown() up to its first await: a call that finds isShuttingDown set
\* returns at once; the first call sets it and closes the HTTP server if
\* there is one.
Entered(sv, i) ==
  IF sv.isShuttingDown THEN [sv EXCEPT !.calls[i] = "returned"]
  ELSE IF sv.listening THEN [sv EXCEPT !.isShuttingDown = TRUE, !.calls[i] = "closing"]
  ELSE Closed([sv EXCEPT !.isShuttingDown = TRUE], i)

\* The signal handler i runs to its next await; when shutdown() has
\* returned it calls process.exit(0).
ShutdownStep(i) ==
  /\ Alive
  /\ LET at == server.calls[i]
         entered == Entered(server, i)
     IN /\ server' =
             IF at = "shutdown"
             THEN IF entered.calls[i] = "returned"
                  THEN [entered EXCEPT !.exited = TRUE]
                  ELSE entered
             ELSE IF at = "closing" THEN Closed(server, i)
             ELSE IF at = "disconnecting"
             THEN [server EXCEPT !.legacy.open = FALSE, !.calls[i] = "destroying"]
             ELSE [server EXCEPT !.calls[i] = "returned", !.exited = TRUE]
        /\ connected' =
             IF at = "disconnecting"
             THEN [connected EXCEPT ![server.database] =
                     adapter_disconnect(server.database, @).db]
             ELSE connected
        /\ result' = [op |-> "shutdown", arg |-> i, out |-> Ok(<<>>), at |-> at]
  /\ pager' = IdlePager
  /\ replay' = NoReplay
  /\ UNCHANGED <<migrators, loop, backend, phase, post, sub_state, legacy, dbAdapterSet, updated>>

\* The legacy database takes statements: it is open and has its tables.
LegacyUsable == server.legacy.open /\ server.legacy.migrated

\* A statement of the legacy branch of handleEvent is rejected by the
\* legacy database: the error leaves handleEvent, whose remaining
\* statements are not issued.
RejectedWrite(k) ==
  LET inv == loop.inflight[k]
      st == NextStatement(inv, dbAdapterSet)
  IN /\ st.kind # "return"
     /\ loop' = [loop EXCEPT !.inflight[k] =
                   [inv EXCEPT !.d = Len(inv.evt.deletes),
                               !.c = Len(inv.evt.creates),
                               !.issued = Append(@, [kind |-> st.kind, n |-> st.n])]]
     /\ result' = [op |-> "write", arg |-> inv.evt,
                   out |-> [a \in Backends |-> Throw(NoSuchTable)]]
     /\ pager' = IdlePager
     /\ replay' = NoReplay
     /\ UNCHANGED <<migrators, server, backend, phase, connected, post, sub_state, legacy,
                    dbAdapterSet, updated>>

ServerParams == [limit |-> 1, cursor |-> NoCursor]

NextServer ==
  \/ \E k \in 0 .. 1 : Start(k)
  \/ Signal
  \/ \E i \in 1 .. Len(server.calls) : ShutdownStep(i)
  \/ Alive /\ server.running /\ \E evt \in LoopEvents : Accept(evt)
  \/ Alive /\ (dbAdapterSet \/ LegacyUsable)
           /\ \E k \in 1 .. Len(loop.inflight) : Write(k)
  \/ Alive /\ ~(dbAdapterSet \/ LegacyUsable)
           /\ \E k \in 1 .. Len(loop.inflight) : RejectedWrite(k)
  \/ Alive /\ \E k \in 1 .. Len(loop.inflight) : Return(k)
  \/ Alive /\ server.listening
           /\ GetFeed(ServerParams, IF LegacyUsable THEN "none" ELSE NoSuchTable)

SpecServer == InitServer /\ [][NextServer]_vars

\* ===================================================== properties
RowsOf(a, u) == {r \in post[a] : r.uri = u}
StoredUris(a) == {r.uri : r \in post[a]}
CreatedUris(evt) == {evt.creates[i].uri : i \in 1 .. Len(evt.creates)}

\* The stored posts as findByUri reports them.
Records(a) ==
  {posts_findByUri(a, connected[a], post[a], u).val[1] : u \in StoredUris(a)}

DistinctIndexedAt(a) ==
  \A p, q \in Records(a) : p # q => p.indexedAt # q.indexedAt

\* The stored posts, newest first (unique when indexedAt values are distinct).
Descending(a) ==
  CHOOSE s \in Perms(Records(a)) :
    \A i \in 1 .. Len(s) - 1 : s[i].indexedAt > s[i + 1].indexedAt

SameFields(rec, p) ==
  /\ rec.uri = p.uri
  /\ rec.cid = p.cid
  /\ rec.replyParent = p.replyParent
  /\ rec.replyRoot = p.replyRoot
  /\ rec.authorDid = p.authorDid
  /\ rec.recordJson = p.recordJson
  /\ rec.indexedAt = p.indexedAt

\* C1: after any sequence of posts.create, posts.deleteByUri and handleEvent
\* batches applied to an adapter, its store holds at most one Post record
\* for any uri.
C1_UniqueUri ==
  \A a \in Backends, u \in Uris : Cardinality(RowsOf(a, u)) <= 1

\* A commit creating one post was delivered twice to a store holding two
\* posts: the second delivery attempted a duplicate write.
C1_Witness ==
  /\ replay.n = 2
  /\ replay.evt.deletes = <<>>
  /\ Len(replay.evt.creates) = 1
  /\ \A a \in Backends : Cardinality(post[a]) = 2

\* C2: posts.create(p) for a uri that is already stored fails with the
\* duplicate-key error, which differs from the not-connected error, and
\* leaves the store unchanged: exactly one record for that uri remains, the
\* one of the first successful write.
C2_DuplicateCreateRejected ==
  [][\A a \in Backends :
       (result'.op = "create" /\ connected[a] /\ RowsOf(a, result'.arg.uri) # {})
         => /\ result'.out[a].err = DuplicateKey
            /\ result'.out[a].err # NotConnected
            /\ post'[a] = post[a]
            /\ Cardinality({r \in post'[a] : r.uri = result'.arg.uri}) = 1]_varsByOp

\* A create was rejected as a duplicate on every adapter although it carried
\* another indexedAt than the stored record, which was kept.
C2_Witness ==
  /\ result.op = "create"
  /\ \A a \in Backends : result.out[a].err = DuplicateKey
  /\ \E p \in Records("sqlite") :
       p.uri = result.arg.uri /\ p.indexedAt # result.arg.indexedAt

C4_PaginationDistinct ==
  (pager.active /\ DistinctIndexedAt(pager.on)) =>
    LET all == Descending(pager.on)
        k == Len(pager.seen)
    IN /\ k <= Len(all)
       /\ pager.seen = SubSeq(all, 1, k)
       /\ Len(pager.page) = Min(pager.limit, Len(all) - (k - Len(pager.page)))
       /\ pager.done => k = Len(all)

\* Three posts with distinct indexedAt were read to the end from the SQLite
\* adapter, the last page being empty.
C4_Witness ==
  /\ pager.active
  /\ pager.on = "sqlite"
  /\ pager.done
  /\ Len(pager.seen) = 3
  /\ DistinctIndexedAt("sqlite")

\* C5: when two stored posts have identical indexedAt and different uri,
\* paginating with limit 1 (first call without cursor, second call with the
\* cursor taken from the first page) returns each of the two posts exactly
\* once.
C5_TiePagination ==
  (/\ pager.active
   /\ pager.limit = 1
   /\ pager.calls = 2
   /\ Cardinality(Records(pager.on)) = 2
   /\ \A p, q \in Records(pager.on) : p.indexedAt = q.indexedAt)
    => /\ Len(pager.seen) = 2
       /\ {pager.seen[i].uri : i \in 1 .. Len(pager.seen)} = StoredUris(pager.on)

\* C6: the same sequence of create, findByUri, deleteByUri and findMany
\* calls applied to the three adapters yields identical logical results at
\* every step: the same outcomes, the same found / not-found answers and
\* the same pages in the same order.
C6_CrossBackend ==
  /\ result.op \in {"create", "findByUri", "deleteByUri"}
       => \A a, b \in Backends : result.out[a] = result.out[b]
  /\ \A c \in Criteria : \A a, b \in Backends :
       \A o1 \in posts_findMany(a, connected[a], post[a], c) :
         \A o2 \in posts_findMany(b, connected[b], post[b], c) : o1 = o2

Absent(a, u) ==
  /\ posts_findByUri(a, connected[a], post[a], u) = Ok(<<>>)
  /\ \A c \in Criteria : \A o \in posts_findMany(a, connected[a], post[a], c) :
       \A i \in 1 .. Len(o.val) : o.val[i].uri # u

\* C8: after posts.deleteByUri(u) returns true, posts.findByUri(u) returns
\* null and no posts.findMany result contains a post with uri u, for as
\* long as u is not created again.  Stated as: a deletion that returned
\* true leaves no row for u; a uri without a row is absent from every read;
\* and a uri without a row gets one only by a create of that uri.
C8_DeletedStaysAbsent ==
  /\ [](\A a \in Backends :
          /\ (result.op = "deleteByUri" /\ result.out[a] = Ok(<<TRUE>>))
               => RowsOf(a, result.arg) = {}
          /\ \A u \in Uris \ StoredUris(a) : Absent(a, u))
  /\ [][\A a \in Backends, u \in Uris :
          (RowsOf(a, u) = {} /\ u \in {r.uri : r \in post'[a]})
            => \/ result'.op = "create" /\ result'.arg.uri = u
               \/ result'.op = "handleEvent" /\ u \in CreatedUris(result'.arg)]_varsByOp

\* deleteByUri returned true on every adapter while other posts stay stored.
C8_Witness ==
  /\ result.op = "deleteByUri"
  /\ \A a \in Backends : result.out[a] = Ok(<<TRUE>>)
  /\ \A a \in Backends : Cardinality(post[a]) = 2

\* C9: posts.deleteByUri(u) for a uri that is not stored returns false
\* without raising an error and leaves the store unchanged;
\* posts.findByUri(u) for such a uri returns null without raising an error.
C9_MissingUri ==
  [][\A a \in Backends :
       connected[a] =>
         /\ (result'.op = "deleteByUri" /\ RowsOf(a, result'.arg) = {})
              => (result'.out[a] = Ok(<<FALSE>>) /\ post'[a] = post[a])
         /\ (result'.op = "findByUri" /\ RowsOf(a, result'.arg) = {})
              => (result'.out[a] = Ok(<<>>) /\ post'[a] = post[a])]_varsByOp

\* deleteByUri of a uri that is not stored returned false on every adapter,
\* the store holding other posts.
C9_Witness ==
  /\ result.op = "deleteByUri"
  /\ \A a \in Backends : result.out[a] = Ok(<<FALSE>>)
  /\ \A a \in Backends : Cardinality(post[a]) = 2 /\ RowsOf(a, result.arg) = {}

\* C10: after any sequence of subscriptionState.update calls there is
\* exactly one state record per service ever updated, and
\* subscriptionState.get(service) returns the cursor of the most recent
\* update of that service, and null for a service never updated.
C10_SubscriptionState ==
  \A a \in Backends, s \in Services :
    LET n == Len(updated[s])
        expected == IF n = 0 THEN Ok(<<>>)
                    ELSE Ok(<<[service |-> s, cursor |-> updated[s][n]]>>)
    IN /\ Cardinality({r \in sub_state[a] : r.service = s}) = Min(n, 1)
       /\ connected[a]
            => subscriptionState_get(a, connected[a], sub_state[a], s) = expected
       /\ (connected[a] /\ result.op = "subGet" /\ result.arg = s)
            => result.out[a] = expected

\* get was called for a service updated twice with different cursors while
\* the other service was never updated.
C10_Witness ==
  /\ result.op = "subGet"
  /\ result.arg = "s1"
  /\ \A a \in Backends : connected[a]
  /\ Len(updated["s1"]) = 2
  /\ updated["s1"][1] # updated["s1"][2]
  /\ updated["s2"] = <<>>

\* What a reader of service s sees on adapter a with the rows given.
ReadCursor(a, conn, rows, s) == subscriptionState_get(a, conn, rows, s)

\* C11 as stated: for a given service the values returned by successive
\* subscriptionState.get(service) calls never decrease.
C11_CursorNeverRegresses ==
  [][\A a \in Backends, s \in Services :
       LET before == ReadCursor(a, connected[a], sub_state[a], s)
           after == ReadCursor(a, connected'[a], sub_state'[a], s)
       IN (before.err = "none" /\ after.err = "none" /\ before.val # <<>>)
            => /\ after.val # <<>>
               /\ after.val[1].cursor >= before.val[1].cursor]_varsByOp

\* C11 amended: update is last-write-wins; the values returned by
\* successive subscriptionState.get(service) calls never decrease as long
\* as every update of the service carries a cursor that is not below the
\* one of the update before it.
C11_CursorFollowsUpdates ==
  [][\A a \in Backends, s \in Services :
       LET before == ReadCursor(a, connected[a], sub_state[a], s)
           after == ReadCursor(a, connected'[a], sub_state'[a], s)
           n == Len(updated[s])
           ascending == (result'.op = "subUpdate" /\ result'.arg.service = s /\ n > 0)
                          => result'.arg.cursor >= updated[s][n]
       IN (ascending /\ before.err = "none" /\ after.err = "none" /\ before.val # <<>>)
            => /\ after.val # <<>>
               /\ after.val[1].cursor >= before.val[1].cursor]_varsByOp

\* get was called for a service updated twice, the second time with a
\* higher cursor, after the other service was updated with a lower one.
C11_Witness ==
  /\ result.op = "subGet"
  /\ result.arg = "s1"
  /\ \A a \in Backends : connected[a] /\ result.out[a].val # <<>>
  /\ Len(updated["s1"]) = 2
  /\ updated["s1"][1] < updated["s1"][2]
  /\ Len(updated["s2"]) = 1
  /\ updated["s2"][1] < updated["s1"][1]

\* The records of a commit: its deletes and its creates.
RecordCount(evt) == Len(evt.deletes) + Len(evt.creates)

C13_CursorAdvancedUnconditionally ==
  result.op = "run" =>
    \A a \in Backends :
      /\ result.arg.evt.isCommit =>
           result.log[a].attempted = RecordCount(result.arg.evt)
      /\ connected[a] =>
           ReadCursor(a, connected[a], sub_state[a], result.arg.service)
             = Ok(<<[service |-> result.arg.service, cursor |-> result.arg.cursor]>>)

\* A batch whose create failed on every adapter (its uri was stored
\* already) was run with a cursor other than the stored one, and the cursor
\* of the service is the one of the batch.
C13_Witness ==
  /\ result.op = "run"
  /\ Len(result.arg.evt.creates) = 1
  /\ Len(updated[result.arg.service]) = 2
  /\ updated[result.arg.service][1] # result.arg.cursor
  /\ \A a \in Backends :
       /\ result.log[a].failed = 1
       /\ ReadCursor(a, connected[a], sub_state[a], result.arg.service).val[1].cursor
            = result.arg.cursor

\* The rows of a fetch whose payload fails to deserialize.
Malformed(res) ==
  {i \in 1 .. Len(res) : \/ JSONParse(res[i].recordJson).err # "none"
                         \/ JSONParse(res[i].recordJson).val.kind = "null"}

FeedUris(out) == [i \in 1 .. Len(out.val.feed) |-> out.val.feed[i].post]

\* C14: the handler excludes a candidate whose recordJson cannot be
\* deserialized and continues with the remaining candidates; the
\* deserialization error never reaches the caller (the handler resolves
\* whenever its query did).
C14_MalformedExcluded ==
  (result.op = "getFeed" /\ result.queryError = "none") =>
    /\ result.out.err = "none"
    /\ \A i \in Malformed(result.fetched) :
         result.fetched[i].uri \notin Range(FeedUris(result.out))
    /\ result.warned = Cardinality(Malformed(result.fetched))

\* A malformed row was fetched ahead of a matching one, and the matching
\* one is in the feed.
C14_Witness ==
  /\ result.op = "getFeed"
  /\ result.out.err = "none"
  /\ Len(result.fetched) >= 2
  /\ 1 \in Malformed(result.fetched)
  /\ result.fetched[2].uri \in Range(FeedUris(result.out))

\* A stored payload is a JSON object whose text contains "alf" in any mix
\* of upper and lower case.
SatisfiesPredicate(row) ==
  LET json == row.recordJson
  IN /\ Len(json) >= 2
     /\ json[1] = "{"
     /\ json[Len(json)] = "}"
     /\ \E i \in 2 .. Len(json) - 3 :
          /\ json[i] \in {"a", "A"}
          /\ json[i + 1] \in {"l", "L"}
          /\ json[i + 2] \in {"f", "F"}

Matching(res) == {i \in 1 .. Len(res) : SatisfiesPredicate(res[i])}

\* The k-th index of a set of indices, in ascending order.
Nth(M, k) == CHOOSE i \in M : Cardinality({j \in M : j < i}) = k - 1

\* C15: the handler returns at most params.limit items; every returned
\* item is a fetched post whose payload satisfies the predicate; no fetched
\* post that satisfies it is dropped unless limit items precede it; and
\* the returned items keep the fetch order.
C15_FilteredPage ==
  (result.op = "getFeed" /\ result.out.err = "none") =>
    LET feed == FeedUris(result.out)
        M == Matching(result.fetched)
    IN /\ Len(feed) <= result.arg.limit
       /\ Len(feed) = Min(result.arg.limit, Cardinality(M))
       /\ \A k \in 1 .. Len(feed) : feed[k] = result.fetched[Nth(M, k)].uri

\* Three rows were fetched, the second of which does not satisfy the
\* predicate; with limit 2 the feed is the first and the third.
C15_Witness ==
  /\ result.op = "getFeed"
  /\ result.out.err = "none"
  /\ result.arg.limit = 2
  /\ Len(result.fetched) = 3
  /\ Matching(result.fetched) = {1, 3}
  /\ Len(result.out.val.feed) = 2

\* C16: the cursor the handler returns is computed from the indexedAt of
\* the last returned row, after filtering and truncation, not from the
\* last fetched row; an empty result carries no cursor.
C16_CursorOfLastReturned ==
  (result.op = "getFeed" /\ result.out.err = "none") =>
    LET feed == FeedUris(result.out)
    IN IF Len(feed) = 0 THEN result.out.val.cursor = NoCursor
       ELSE \E i \in 1 .. Len(result.fetched) :
              /\ result.fetched[i].uri = feed[Len(feed)]
              /\ result.out.val.cursor
                   = NumberToString(DateParse(result.fetched[i].indexedAt))
              /\ ToISOString(ParseInt(result.out.val.cursor)) = result.fetched[i].indexedAt

\* The last returned row is not the last fetched row and was indexed at
\* another time.
C16_Witness ==
  /\ result.op = "getFeed"
  /\ result.out.err = "none"
  /\ Len(result.out.val.feed) >= 1
  /\ LET last == result.fetched[Len(result.fetched)]
     IN /\ last.uri # result.out.val.feed[Len(result.out.val.feed)].post
        /\ NumberToString(DateParse(last.indexedAt)) # result.out.val.cursor

\* The outcomes a call has handed back: findMany is called on one adapter,
\* every other operation on all of them.
Called(r) == IF r.op = "findMany" THEN {r.arg.on} ELSE Backends

GuardedOps ==
  {"migrate", "create", "findMany", "findByUri", "deleteByUri", "subGet", "subUpdate"}

\* C17: every operation other than connect() called on an adapter that is
\* not connected, before connect() or after disconnect(), fails with the
\* not-connected error and reads and writes nothing on the backend.
C17_NotConnected ==
  [][(phase \in {"new", "disconnected"} /\ result'.op \in GuardedOps) =>
       /\ \A a \in Called(result') : result'.out[a] = Throw(NotConnected)
       /\ post' = post
       /\ sub_state' = sub_state
       /\ backend' = backend]_varsByOp

\* After disconnect(), on backends that hold a post and a cursor, a read was
\* called and failed with the not-connected error on every adapter.
C17_Witness ==
  /\ phase = "disconnected"
  /\ result.op = "findByUri"
  /\ \A a \in Backends :
       /\ result.out[a] = Throw(NotConnected)
       /\ post[a] # {}
       /\ sub_state[a] # {}

\* C18: healthCheck() never throws: it returns false when the adapter is
\* not connected or the round-trip fails, and true only when the round-trip
\* succeeded.
C18_HealthCheckNeverThrows ==
  result.op = "healthCheck" =>
    \A a \in Backends :
      /\ result.out[a].err = "none"
      /\ result.out[a].val \in {<<TRUE>>, <<FALSE>>}
      /\ (~connected[a] \/ ~backend[a].up) => result.out[a].val = <<FALSE>>
      /\ result.out[a].val = <<TRUE>> =>
           /\ connected[a]
           /\ backend[a].up
           /\ a = "sqlite" => "post" \in backend[a].schema

\* healthCheck was called on adapters that hold a handle while their
\* backends do not answer, and returned false.
C18_Witness ==
  /\ result.op = "healthCheck"
  /\ \A a \in Backends :
       /\ connected[a]
       /\ ~backend[a].up
       /\ result.out[a] = Ok(<<FALSE>>)

\* C19: migrate() on a backend that is at the latest version succeeds and
\* writes nothing: schema or collections, ledger and stored data are as
\* before.
C19_MigrateIdempotent ==
  result.op = "migrate" =>
    \A a \in Backends :
      (connected[a] /\ result.before[a] = MigratedBackend(a)) =>
        /\ result.out[a].err = "none"
        /\ backend[a] = result.before[a]

\* migrate() was called on migrated backends that hold a post and a cursor.
C19_Witness ==
  /\ result.op = "migrate"
  /\ \A a \in Backends :
       /\ connected[a]
       /\ result.before[a] = MigratedBackend(a)
       /\ result.out[a].err = "none"
       /\ post[a] # {}
       /\ sub_state[a] # {}

\* C20: disconnect() on an adapter that is disconnected already or was
\* never connected succeeds and leaves it disconnected.
C20_DisconnectIdempotent ==
  result.op = "disconnect" =>
    \A a \in Backends :
      /\ ~connected[a]
      /\ ~result.before[a] => result.out[a].err = "none"

\* disconnect() was called on adapters that held no handle.
C20_Witness ==
  /\ result.op = "disconnect"
  /\ phase = "disconnected"
  /\ \A a \in Backends : ~result.before[a] /\ result.out[a].err = "none"

\* What the migrated backend of adapter a holds, whatever fault is still due.
Migrated(a, b) ==
  /\ b.schema = MigratedBackend(a).schema
  /\ b.ledger = MigratedBackend(a).ledger

\* C21: createDatabaseAdapter returns an adapter exactly when connect() and
\* then migrate() have both succeeded: the returned adapter holds a
\* connection to a migrated backend; when connect() fails migrate() is not
\* called, and when either fails its error reaches the caller and no
\* adapter is returned.
C21_ReturnedOnlyAfterConnectAndMigrate ==
  (result.op = "createDatabaseAdapter" /\ result.arg.type \in Backends) =>
    LET a == result.arg.type
        before == Armed(result.before, result.fault)
        c == connectWith(result.arg, before)
        m == adapter_migrate(a, c.db, before)
    IN /\ result.returned <=> (c.out.err = "none" /\ m.out.err = "none")
       /\ result.returned =>
            /\ result.out = Ok(<<>>)
            /\ result.calls = <<"new", "connect", "migrate">>
            /\ connected[a] /\ result.db
            /\ Migrated(a, backend[a])
       /\ c.out.err # "none" =>
            /\ result.out = c.out
            /\ result.calls = <<"new", "connect">>
            /\ backend[a] = result.before
       /\ (c.out.err = "none" /\ m.out.err # "none") =>
            /\ result.out = m.out
            /\ result.calls = <<"new", "connect", "migrate">>
       /\ ~result.returned => ~connected[a]

\* The factory was called, connect() succeeded and migrate() failed half
\* way: the backend is not migrated and no adapter was returned.
C21_Witness ==
  /\ result.op = "createDatabaseAdapter"
  /\ result.arg.type \in Backends
  /\ result.calls = <<"new", "connect", "migrate">>
  /\ result.out.err = ConnectionError
  /\ ~result.returned
  /\ ~Migrated(result.arg.type, backend[result.arg.type])
  /\ backend[result.arg.type].schema # {}

\* C22: createDatabaseAdapter with a type tag other than sqlite, postgresql
\* and mongodb fails with 'Unsupported database type'; no adapter is
\* constructed, no connection is attempted and no backend changes.
C22_UnsupportedTypeRejected ==
  (result.op = "createDatabaseAdapter" /\ result.arg.type \notin Backends) =>
    /\ result.out = Throw(UnsupportedDatabaseType)
    /\ result.calls = <<>>
    /\ ~result.attempted
    /\ ~result.returned

C22_BackendsUntouched ==
  [][\A config \in DatabaseConfigs :
       (config.type \notin Backends /\ CreateDatabaseAdapter(config, 0)) =>
         (backend' = backend /\ connected' = connected)]_varsByOp

\* The factory was called with the tag "redis" while the backends answered.
C22_Witness ==
  /\ result.op = "createDatabaseAdapter"
  /\ result.arg.type = UnsupportedType
  /\ result.out.err = UnsupportedDatabaseType
  /\ \A a \in Backends : backend[a].up

\* C23: createDatabaseAdapter validates the required fields of the
\* configured type before it constructs the adapter: a configuration that
\* validateDatabaseConfig rejects fails with that error, no adapter is
\* constructed and no connection is attempted.
C23_ValidatedBeforeConstruction ==
  (result.op = "createDatabaseAdapter"
   /\ validateDatabaseConfig(result.arg).err # "none") =>
    /\ result.out = validateDatabaseConfig(result.arg)
    /\ result.calls = <<>>
    /\ ~result.attempted
    /\ ~result.returned

\* C24: posts.findMany with an authorDid (and a limit that is absent or at
\* least 1) returns only posts of that author, newest first, and the page is
\* cut from the author's posts below the cursor: it holds min(limit, number
\* of such posts) of them and no such post left out is newer than a
\* returned one, whatever posts of other authors are stored.
C24_AuthorFilterBeforePagination ==
  (/\ result.op = "findMany"
   /\ ~Falsy(result.arg.criteria.authorDid)
   /\ result.arg.criteria.limit # 0
   /\ result.out[result.arg.on].err = "none") =>
    LET a == result.arg.on
        c == result.arg.criteria
        page == result.out[a].val
        eligible == {p \in Records(a) :
                       /\ p.authorDid = c.authorDid
                       /\ c.cursor = NoCursor \/ p.indexedAt < DateParse(c.cursor)}
    IN /\ Range(page) \subseteq eligible
       /\ Cardinality(Range(page)) = Len(page)
       /\ Len(page) = IF c.limit = NoLimit THEN Cardinality(eligible)
                      ELSE Min(c.limit, Cardinality(eligible))
       /\ \A i \in 1 .. Len(page) - 1 : page[i].indexedAt >= page[i + 1].indexedAt
       /\ \A p \in eligible \ Range(page), q \in Range(page) :
            p.indexedAt <= q.indexedAt

\* findMany with an authorDid and limit 1 returned a post of that author
\* from a store whose newest post is another author's.
C24_Witness ==
  /\ result.op = "findMany"
  /\ result.arg.criteria.authorDid = Author(1)
  /\ result.arg.criteria.limit = 1
  /\ Len(result.out[result.arg.on].val) = 1
  /\ \E p \in Records(result.arg.on) :
       /\ p.authorDid # Author(1)
       /\ \A q \in Records(result.arg.on) : q.authorDid = Author(1) => q.indexedAt < p.indexedAt

\* C25: posts.getAlgorithmFeed returns its posts newest first and returns a
\* cursor exactly when the page is not empty; the cursor is the indexedAt
\* of the page's last post, and an empty page carries no cursor.
C25_FeedCursor ==
  (result.op = "getAlgorithmFeed" /\ result.out.err = "none") =>
    LET page == result.out.val.posts
        cursor == result.out.val.cursor
    IN /\ \A i \in 1 .. Len(page) - 1 : page[i].indexedAt >= page[i + 1].indexedAt
       /\ Range(page) \subseteq Records(result.arg.on)
       /\ (cursor # NoCursor) <=> (Len(page) > 0)
       /\ Len(page) > 0 => DateParse(cursor) = page[Len(page)].indexedAt

\* getAlgorithmFeed was called with a cursor below which nothing is stored,
\* on a store that holds posts: the page is empty.
C25_Witness ==
  /\ result.op = "getAlgorithmFeed"
  /\ result.out.err = "none"
  /\ result.arg.cursor # NoCursor
  /\ Records(result.arg.on) # {}
  /\ Len(result.out.val.posts) = 0

\* getAlgorithmFeed returned a page of two posts of different age.
C25_WitnessPage ==
  /\ result.op = "getAlgorithmFeed"
  /\ result.out.err = "none"
  /\ Len(result.out.val.posts) = 2
  /\ result.out.val.posts[1].indexedAt > result.out.val.posts[2].indexedAt

\* C26: when the query of the filtered-feed handler fails, the handler
\* rejects with the error of the query; it returns no feed, empty or
\* partial.
C26_QueryFailureRejects ==
  (result.op = "getFeed" /\ result.queryError # "none") =>
    result.out = Throw(result.queryError)

\* The handler was called on a store that holds a matching post and its
\* query failed.
C26_Witness ==
  /\ result.op = "getFeed"
  /\ result.queryError = ConnectionError
  /\ result.out.err = ConnectionError
  /\ \E r \in legacy : SatisfiesPredicate(r)

\* Text comparison of two uris.
UriLess(x, y) == \/ x = "u1" /\ y \in {"u2", "u3"}
                 \/ x = "u2" /\ y = "u3"

\* C27: in every adapter posts.findMany returns its posts in one total
\* order: indexedAt descending, and posts with equal indexedAt in uri
\* descending order.
C27_TotalOrder ==
  (result.op = "findMany" /\ result.out[result.arg.on].err = "none") =>
    LET page == result.out[result.arg.on].val
    IN \A i \in 1 .. Len(page) - 1 :
         \/ page[i].indexedAt > page[i + 1].indexedAt
         \/ /\ page[i].indexedAt = page[i + 1].indexedAt
            /\ UriLess(page[i + 1].uri, page[i].uri)

\* The statements of the handleEvent calls in flight and of the last call
\* that has returned.
IssuedLists ==
  {loop.inflight[k].issued : k \in 1 .. Len(loop.inflight)}
    \cup {loop.last[k].issued : k \in 1 .. Len(loop.last)}

KindRank(kind) == CASE kind = "delete" -> 1 [] kind = "create" -> 2 [] OTHER -> 3

\* Deletes, then creates, then the cursor.
DeletesThenCreates(issued) ==
  \A i, j \in 1 .. Len(issued) :
    i < j => KindRank(issued[i].kind) <= KindRank(issued[j].kind)

\* Every statement carries one record.
OneRecordEach(issued) == \A i \in 1 .. Len(issued) : issued[i].n = 1

\* The call that has returned has written every record of its batch and
\* the cursor.
FullyApplied(done) ==
  /\ Cardinality({i \in 1 .. Len(done.issued) : done.issued[i].kind = "delete"})
       = Len(done.evt.deletes)
  /\ Cardinality({i \in 1 .. Len(done.issued) : done.issued[i].kind = "create"})
       = Len(done.evt.creates)
  /\ done.issued[Len(done.issued)].kind = "cursor"

\* C28: handleEvent applies the deletes of a batch before its creates, one
\* record at a time, and a batch is fully applied (its deletes, its
\* creates, the cursor) before any write of the next batch: at most one
\* batch is being written at any time.
C28_BatchesInOrder ==
  /\ \A issued \in IssuedLists : DeletesThenCreates(issued) /\ OneRecordEach(issued)
  /\ Len(loop.inflight) <= 1
  /\ \A k \in 1 .. Len(loop.last) : FullyApplied(loop.last[k])

\* What holds of both branches of handleEvent: deletes before creates, one
\* batch at a time, every batch completed by its cursor; the statements
\* carry one record each when the subscription has a dbAdapter.
C28_OrderedBatches ==
  /\ \A issued \in IssuedLists :
       /\ DeletesThenCreates(issued)
       /\ dbAdapterSet => OneRecordEach(issued)
  /\ Len(loop.inflight) <= 1
  /\ \A k \in 1 .. Len(loop.last) :
       /\ loop.last[k].issued[Len(loop.last[k].issued)].kind = "cursor"
       /\ dbAdapterSet => FullyApplied(loop.last[k])

\* The steps of the migration ledger in name order, and the schema objects
\* that are the effects of a step on the backend of adapter a.
Steps == <<"001", "002">>

NamesOf(stmts) == {stmts[i].name : i \in 1 .. Len(stmts)}

StepEffects(a, step) ==
  IF step = "001" THEN NamesOf(Migration001)
  ELSE IF a = "postgresql" THEN {"post.columns002", "post_author_did_idx"}
  ELSE NamesOf(Migration002)

\* C29: in every state of the migration runner, also after a migrate()
\* that failed at any statement, a step name is in the ledger only if all
\* effects of that step are applied to the backend.
C29_LedgerImpliesEffects ==
  \A a \in Backends : \A step \in backend[a].ledger :
    StepEffects(a, step) \subseteq backend[a].schema

\* migrate() failed in the middle of step 002: step 001 is in the ledger,
\* step 002 is not, and a part of the effects of 002 is applied.
C29_Witness ==
  /\ result.op = "migrate"
  /\ result.fault > 0
  /\ \E a \in {"sqlite", "postgresql"} :
       /\ result.out[a].err = ConnectionError
       /\ backend[a].ledger = {"001"}
       /\ StepEffects(a, "002") \cap backend[a].schema # {}
       /\ ~(StepEffects(a, "002") \subseteq backend[a].schema)

\* The adapters that keep a migration ledger.
Ledgered == {"sqlite", "postgresql"}

\* The position in Steps of the step a statement belongs to: 0 for the
\* statements that set up the ledger.
StepRank(a, stmt) ==
  IF stmt.name = "001" \/ (stmt.kind = "create" /\ stmt.name \in StepEffects(a, "001"))
  THEN 1
  ELSE IF stmt.name = "002" \/ (stmt.kind = "create" /\ stmt.name \in StepEffects(a, "002"))
  THEN 2
  ELSE 0

\* C30: migrate() runs the pending steps in ascending name order and skips
\* the steps the ledger holds: the ledger is always a prefix of the step
\* list (002 recorded implies 001 recorded), the statements of a migrate()
\* come in step order, no statement of a step that was recorded before the
\* call is issued again, and a statement whose effect is already there (left
\* by a step that failed half way) applies nothing: migrate() fails at it.
C30_AscendingSkipping ==
  /\ \A a \in Backends : "002" \in backend[a].ledger => "001" \in backend[a].ledger
  /\ result.op = "migrate" =>
       \A a \in Ledgered :
         LET issued == result.issued[a]
         IN /\ \A i, j \in 1 .. Len(issued) :
                 i < j => StepRank(a, issued[i]) <= StepRank(a, issued[j])
            /\ \A i \in 1 .. Len(issued) :
                 StepRank(a, issued[i]) > 0 =>
                   Steps[StepRank(a, issued[i])] \notin result.before[a].ledger
            /\ \A i \in 1 .. Len(issued) :
                 (/\ StepRank(a, issued[i]) > 0
                  /\ issued[i].kind = "create"
                  /\ issued[i].name \in result.before[a].schema) =>
                   (i = Len(issued) /\ result.out[a].err # "none")

\* migrate() ran on a backend whose ledger held 001 only and applied 002
\* only.
C30_Witness ==
  /\ result.op = "migrate"
  /\ \E a \in Ledgered :
       /\ result.before[a].ledger = {"001"}
       /\ result.out[a].err = "none"
       /\ backend[a].ledger = {"001", "002"}
       /\ \E i \in 1 .. Len(result.issued[a]) : StepRank(a, result.issued[a][i]) = 2

\* C31: on shutdown the system drains in order: once shutdown() has begun
\* no new batch is admitted to the run loop, dbAdapter.disconnect() is
\* called only when no batch is in flight, and no handleEvent write reaches
\* an adapter after its disconnect() has started.
C31_DrainInOrder ==
  [][/\ result'.op = "accept" => ~server.isShuttingDown
     /\ server'.disconnects > server.disconnects => loop.inflight = <<>>
     /\ (result'.op = "write" /\ dbAdapterSet) => server.disconnects = 0]_varsByOp

\* C32: after start() has completed with a database configuration, every
\* write of the ingestion pipeline goes through the adapter the factory
\* produced, which is connected and migrated, and not to another store.
C32_SharedAdapter ==
  [][(/\ server.started = "yes" /\ server.database # NoDatabase
      /\ result'.op = "write")
       => /\ dbAdapterSet /\ server.dbAdapter
          /\ connected[server.database]
          /\ Migrated(server.database, backend[server.database])
          /\ legacy' = legacy]_varsByOp

\* C33: whenever a limit is passed to posts.findMany, limit 0 included, the
\* result holds at most `limit` posts; only an absent limit leaves the
\* result unbounded.
C33_LimitBoundsResult ==
  (/\ result.op = "findMany"
   /\ result.out[result.arg.on].err = "none"
   /\ result.arg.criteria.limit # NoLimit)
    => Len(result.out[result.arg.on].val) <= result.arg.criteria.limit

\* C37: when shutdown is triggered more than once, the adapter is
\* disconnected exactly once and the process exits only after that
\* disconnect has completed.
C37_ExitAfterSingleDisconnect ==
  /\ server.disconnects <= 1
  /\ (server.exited /\ server.dbAdapter /\ Len(server.calls) >= 2) =>
       (server.disconnects = 1 /\ ~connected[server.database])

\* C38: when createDatabaseAdapter fails in migrate() after connect()
\* succeeded, the connection opened by connect() is released before the
\* error reaches the caller: no connection stays open for an adapter that
\* was never returned.
C38_ConnectionReleasedOnFailure ==
  (/\ result.op = "createDatabaseAdapter"
   /\ result.calls = <<"new", "connect", "migrate">>
   /\ result.out.err # "none")
    => ~result.db

\* C34: with pairwise distinct indexedAt and no writes between calls,
\* following the cursors of the filtered-feed handler from the first page
\* until a page comes without a cursor visits every stored post that
\* matches the filter exactly once; a page without items and cursor comes
\* only when no matching post older than the request cursor is left.
C34_FeedPaginationComplete ==
  (/\ pager.active /\ pager.on = "feed" /\ pager.done
   /\ \A x, y \in legacy : x # y => x.indexedAt # y.indexedAt)
    => /\ Range(pager.seen) = {r.uri : r \in {x \in legacy : KeepRow(x)}}
       /\ Len(pager.seen) = Cardinality(Range(pager.seen))

\* C35: when two adapter instances run migrate() at the same time against
\* the same fresh backend, neither call fails, and when both have ended
\* every step is applied and recorded once.
C35_ConcurrentMigrate ==
  /\ \A i \in Instances : migrators.calls[i].at # "failed"
  /\ (\A i \in Instances : migrators.calls[i].at = "done") =>
       Migrated(migrators.on, backend[migrators.on])

\* Backend b of adapter a was left by a migrate() that failed part-way
\* through a step: some effect of the step is applied, its name is not in
\* the ledger.
PartlyApplied(a, b) ==
  \E i \in 1 .. Len(Steps) :
    /\ Steps[i] \notin b.ledger
    /\ StepEffects(a, Steps[i]) \cap b.schema # {}

\* C36: when migrate() has failed part-way through a step, a later
\* migrate() on the same backend, run without a fault, completes and
\* brings the schema to the latest version with every step in the ledger.
C36_RerunCompletes ==
  (result.op = "migrate" /\ result.fault = 0) =>
    \A a \in Ledgered :
      (connected[a] /\ PartlyApplied(a, result.before[a])) =>
        (result.out[a] = Ok(<<>>) /\ Migrated(a, backend[a]))

\* C40: the id of the record returned by posts.create(p) equals the id of
\* the record that posts.findByUri(p.uri) returns for the same post
\* afterwards.
C40_SameId ==
  [][\A a \in Backends :
       (/\ result.op = "create" /\ result.out[a].err = "none"
        /\ result'.op = "findByUri" /\ result'.arg = result.arg.uri
        /\ result'.out[a].err = "none" /\ Len(result'.out[a].val) = 1)
         => result'.out[a].val[1].id = result.out[a].val[1].id]_varsByOp

\* The posts of adapter a with a uri other than u, and its subscription
\* states of a service other than s.
OtherPosts(rows, u) == {r \in rows : r.uri # u}
OtherStates(rows, s) == {r \in rows : r.service # s}

\* C39: posts.create(p) and posts.deleteByUri(u) change no stored post other
\* than the one with that uri and no SubscriptionState;
\* subscriptionState.update(s, c) changes no post and no SubscriptionState
\* of another service; findMany, findByUri, subscriptionState.get and
\* healthCheck change nothing.
C39_FrameEffects ==
  [][\A a \in Backends :
       /\ result'.op = "create" =>
            /\ OtherPosts(post'[a], result'.arg.uri) = OtherPosts(post[a], result'.arg.uri)
            /\ sub_state'[a] = sub_state[a]
       /\ result'.op = "deleteByUri" =>
            /\ OtherPosts(post'[a], result'.arg) = OtherPosts(post[a], result'.arg)
            /\ sub_state'[a] = sub_state[a]
       /\ result'.op = "subUpdate" =>
            /\ post'[a] = post[a]
            /\ OtherStates(sub_state'[a], result'.arg.service)
                 = OtherStates(sub_state[a], result'.arg.service)
       /\ result'.op \in {"findMany", "findByUri", "subGet", "healthCheck"} =>
            /\ post'[a] = post[a]
            /\ sub_state'[a] = sub_state[a]
            /\ backend'[a] = backend[a]
            /\ connected'[a] = connected[a]]_varsByOp

\* subscriptionState.update changed the cursor of one service on every
\* adapter while the other service had a state and two posts were stored.
C39_Witness ==
  /\ result.op = "subUpdate"
  /\ \A a \in Backends :
       /\ result.out[a].err = "none"
       /\ Cardinality(post[a]) = 2
       /\ Cardinality(sub_state[a]) = 2
       /\ \E r \in sub_state[a] :
            r.service = result.arg.service /\ r.cursor = 2 /\ result.arg.cursor = 2
       /\ \E r \in sub_state[a] : r.service # result.arg.service /\ r.cursor = 1

====
